---- MODULE Spec2Model ----
(***************************************************************************)
(* A model of the Agora governance contracts: Assembly (GovernanceUnit),   *)
(* AssemblyPassports (CredentialIssuer) and Contest (Vote).                *)
(*                                                                         *)
(* Every external call is one atomic step.  A call that reverts leaves the *)
(* state as it was (EVM revert semantics): each handler is modelled by an  *)
(* operator <f>_err that computes, in the order of the code's checks, the  *)
(* error the call reverts with ("ok" when it does not revert), and by an   *)
(* action <f> that applies the handler's assignments when <f>_err is "ok". *)
(***************************************************************************)
EXTENDS Integers, Sequences, FiniteSets, TLC

\* ------------------------------------------------------------------ bounds
NumUsers == 2
NumVoters == 7
MaxTypes == 1
MaxContests == 2
MaxTime == 2
MaxDuration == 2
MaxAssemblies == 3
WordBits == 3

\* ------------------------------------------------------- program constants
MAX_OPTIONS == 10

\* --------------------------------------------------------------- addresses
ZeroAddr == 0
AssemblyAddr == 101
PassportsAddr == 102
ContestImplAddr == 103

\* Externally owned accounts.  Users call every contract; Voters is the
\* larger population that only casts votes (Users is a subset of Voters).
Users == 1..NumUsers
Voters == 1..NumVoters
Accounts == Users \cup Voters

\* Contest 0 is the implementation contract (deployed, never initialized by
\* the factory); 1..MaxContests are the clones createContest makes.
ImplContest == 0
ContestIds == 0..MaxContests

TokenIds == 1..(MaxTypes + 1)
OptionIdx == 0..(MAX_OPTIONS - 1)

OK == "ok"

\* ------------------------------------------------------------------- state
VARIABLES now, assembly, passports, contests, factory, calls

vars == <<now, assembly, passports, contests, factory, calls>>

\* ------------------------------------------------------------- input sets
Strings == {"", "ipfs://a", "ipfs://b"}
Prompts == {"", "Pick one?"}
TooMany == [i \in 1..(MAX_OPTIONS + 1) |-> "A"]
OptionLists == {<<>>, <<"A">>, <<"A", "B">>, <<"A", "">>, <<"A", "B", "C">>, TooMany}
Durations == 0..MaxDuration
RequiredLists == {<<>>, <<1>>, <<2, 1>>, <<MaxTypes + 1>>}

\* ================================================================ helpers
Len0(s) == IF s = "" THEN 0 ELSE 1

\* uint256, scaled down to WordBits bits.
UintMax == 2^WordBits - 1
Uints == 0..UintMax


\* ================================================== AssemblyPassports.sol
\* (the contract text is the second half of app/assemblies/[id]/page.tsx)
NoType == [name |-> "", uri |-> "", isOpen |-> FALSE, exists |-> FALSE]

\* Before Assembly.__init deploys it, no passport contract exists.
NoPassports ==
    [exists |-> FALSE, owner |-> ZeroAddr, nextTokenId |-> 0, entered |-> FALSE,
     passportTypes |-> [t \in TokenIds |-> NoType],
     allowlist |-> [t \in TokenIds |-> {}],
     balances |-> [k \in Accounts \X TokenIds |-> 0]]

\* constructor, lines 237-239.
NewPassports(assemblyAddress) ==
    [NoPassports EXCEPT !.exists = TRUE, !.owner = assemblyAddress, !.nextTokenId = 1]

\* balanceOf, lines 344-349 (ERC1155 balance; 0 for an address never minted to).
balanceOf(account, tokenId) ==
    IF <<account, tokenId>> \in DOMAIN passports.balances
    THEN passports.balances[<<account, tokenId>>] ELSE 0

\* passportTypes[tokenId], a mapping read: the zero struct for an unknown id.
passportTypeOf(tokenId) ==
    IF tokenId \in TokenIds THEN passports.passportTypes[tokenId] ELSE NoType

\* holdsPassport, lines 356-358.
holdsPassport(account, tokenId) == balanceOf(account, tokenId) > 0

RECURSIVE holdsAnyPassportFrom(_, _, _)
holdsAnyPassportFrom(account, tokenIds, i) ==
    IF i > Len(tokenIds) THEN FALSE
    ELSE IF balanceOf(account, tokenIds[i]) > 0 THEN TRUE
    ELSE holdsAnyPassportFrom(account, tokenIds, i + 1)

\* Mutant: only the first id of the list is looked at.
holdsAnyPassport_FirstOnly(account, tokenIds) ==
    Len(tokenIds) > 0 /\ balanceOf(account, tokenIds[1]) > 0

\* holdsAnyPassport, lines 365-372.
holdsAnyPassport(account, tokenIds) == holdsAnyPassportFrom(account, tokenIds, 1)

\* The storage of the passport contract at address addr: the unit's own, or
\* the one a unit created by the factory deployed (factory.issuers, keyed by
\* address); the empty storage where no passport contract is deployed.
IssuerAt(addr) ==
    IF addr = PassportsAddr THEN passports
    ELSE IF addr \in DOMAIN factory.issuers THEN factory.issuers[addr]
    ELSE NoPassports

\* balanceOf and holdsAnyPassport (lines 344-349, 365-372) on the storage p.
balanceIn(p, account, tokenId) ==
    IF <<account, tokenId>> \in DOMAIN p.balances THEN p.balances[<<account, tokenId>>] ELSE 0

RECURSIVE holdsAnyPassportIn(_, _, _, _)
holdsAnyPassportIn(p, account, tokenIds, i) ==
    IF i > Len(tokenIds) THEN FALSE
    ELSE IF balanceIn(p, account, tokenIds[i]) > 0 THEN TRUE
    ELSE holdsAnyPassportIn(p, account, tokenIds, i + 1)

\* AssemblyPassports(addr).holdsAnyPassport(account, tokenIds): the call runs
\* on the storage of the contract at addr.
holdsAnyPassportAt(addr, account, tokenIds) ==
    IF addr = PassportsAddr THEN holdsAnyPassport(account, tokenIds)
    ELSE holdsAnyPassportIn(IssuerAt(addr), account, tokenIds, 1)

\* An external call to the passport contract reverts when the address called
\* holds no passport contract.
PassportsCallable(addr) == IssuerAt(addr).exists

\* Mutant: the onlyOwner modifier is missing.
onlyOwner_AnyCaller(sender) == TRUE

\* Ownable.onlyOwner, used at lines 254, 270, 285, 319.
onlyOwner(sender) == sender = passports.owner

\* Ownable.transferOwnership / renounceOwnership, inherited (line 223) and
\* public: the only functions that write the owner after the constructor.
transferOwnership_err(sender, newOwner) ==
    IF ~onlyOwner(sender) THEN "OwnableUnauthorizedAccount"
    ELSE IF newOwner = ZeroAddr THEN "OwnableInvalidOwner"
    ELSE OK

renounceOwnership_err(sender) ==
    IF ~onlyOwner(sender) THEN "OwnableUnauthorizedAccount" ELSE OK

\* createPassportType, lines 250-263.
Passports_createPassportType_err(sender, name, metadataUri) ==
    IF ~onlyOwner(sender) THEN "OwnableUnauthorizedAccount"
    ELSE IF Len0(name) = 0 THEN "EmptyName"
    ELSE IF Len0(metadataUri) = 0 THEN "EmptyURI"
    ELSE OK

\* Line 258: the id returned, tokenId = _nextTokenId++.
Passports_createPassportType_ret == passports.nextTokenId

\* Mutant: the id is taken after the increment (++_nextTokenId).
Passports_createPassportType_state_PreIncrement(name, metadataUri, isOpen) ==
    [passports EXCEPT
        !.nextTokenId = @ + 1,
        !.passportTypes[passports.nextTokenId + 1] =
            [name |-> name, uri |-> metadataUri, isOpen |-> isOpen, exists |-> TRUE]]

Passports_createPassportType_state(name, metadataUri, isOpen) ==
    [passports EXCEPT
        !.nextTokenId = @ + 1,
        !.passportTypes[passports.nextTokenId] =
            [name |-> name, uri |-> metadataUri, isOpen |-> isOpen, exists |-> TRUE]]

\* addToAllowlist, lines 270-278.
addToAllowlist_err(sender, tokenId, accounts) ==
    IF ~onlyOwner(sender) THEN "OwnableUnauthorizedAccount"
    ELSE IF ~passportTypeOf(tokenId).exists THEN "PassportTypeDoesNotExist"
    ELSE IF Len(accounts) = 0 THEN "EmptyAddressArray"
    ELSE OK

\* Mutant: the listed addresses replace the allowlist instead of joining it.
addToAllowlist_state_Overwrite(tokenId, accounts) ==
    [passports EXCEPT !.allowlist[tokenId] = {accounts[i] : i \in 1..Len(accounts)}]

addToAllowlist_state(tokenId, accounts) ==
    [passports EXCEPT !.allowlist[tokenId] = @ \cup {accounts[i] : i \in 1..Len(accounts)}]

\* updatePassportURI, lines 285-290.
Passports_updatePassportURI_err(sender, tokenId, newUri) ==
    IF ~onlyOwner(sender) THEN "OwnableUnauthorizedAccount"
    ELSE IF ~passportTypeOf(tokenId).exists THEN "PassportTypeDoesNotExist"
    ELSE IF Len0(newUri) = 0 THEN "EmptyURI"
    ELSE OK

Passports_updatePassportURI_state(tokenId, newUri) ==
    [passports EXCEPT !.passportTypes[tokenId].uri = newUri]

\* ERC1155._mint(to, id, 1, ""): rejects the zero address, adds 1 to the balance.
ERC1155_mint_err(to) == IF to = ZeroAddr THEN "ERC1155InvalidReceiver" ELSE OK

ERC1155_mint_state(to, tokenId) ==
    [passports EXCEPT !.balances[<<to, tokenId>>] = @ + 1]

\* Mutant: an allowlisted caller passes the holding check of line 302.
mint_err_AllowlistedRemint(sender, tokenId) ==
    IF ~passportTypeOf(tokenId).exists THEN "PassportTypeDoesNotExist"
    ELSE IF balanceOf(sender, tokenId) > 0 /\ sender \notin passports.allowlist[tokenId]
         THEN "AlreadyHoldsPassport"
    ELSE IF ~passportTypeOf(tokenId).isOpen /\ sender \notin passports.allowlist[tokenId]
         THEN "NotAllowlisted"
    ELSE ERC1155_mint_err(sender)

\* Mutant: the allowlist is required whatever the type's open flag.
mint_err_IgnoresOpen(sender, tokenId) ==
    IF ~passportTypeOf(tokenId).exists THEN "PassportTypeDoesNotExist"
    ELSE IF balanceOf(sender, tokenId) > 0 THEN "AlreadyHoldsPassport"
    ELSE IF sender \notin passports.allowlist[tokenId] THEN "NotAllowlisted"
    ELSE ERC1155_mint_err(sender)

\* Mutant: mint without the nonReentrant modifier of line 298.
mint_err_NoGuard(sender, tokenId) ==
    IF ~passportTypeOf(tokenId).exists THEN "PassportTypeDoesNotExist"
    ELSE IF balanceOf(sender, tokenId) > 0 THEN "AlreadyHoldsPassport"
    ELSE IF ~passportTypeOf(tokenId).isOpen /\ sender \notin passports.allowlist[tokenId]
         THEN "NotAllowlisted"
    ELSE ERC1155_mint_err(sender)

\* mint, lines 298-312; nonReentrant (ReentrancyGuard) runs first.
mint_err(sender, tokenId) ==
    IF passports.entered THEN "ReentrancyGuardReentrantCall"
    ELSE IF ~passportTypeOf(tokenId).exists THEN "PassportTypeDoesNotExist"
    ELSE IF balanceOf(sender, tokenId) > 0 THEN "AlreadyHoldsPassport"
    ELSE IF ~passportTypeOf(tokenId).isOpen /\ sender \notin passports.allowlist[tokenId]
         THEN "NotAllowlisted"
    ELSE ERC1155_mint_err(sender)

\* mintTo, lines 319-326.
\* Mutant: mintTo applies the eligibility check of mint (line 304) to the receiver.
mintTo_err_ChecksEligibility(sender, to, tokenId) ==
    IF ~onlyOwner(sender) THEN "OwnableUnauthorizedAccount"
    ELSE IF ~passportTypeOf(tokenId).exists THEN "PassportTypeDoesNotExist"
    ELSE IF balanceOf(to, tokenId) > 0 THEN "AlreadyHoldsPassport"
    ELSE IF ~passportTypeOf(tokenId).isOpen /\ to \notin passports.allowlist[tokenId]
         THEN "NotAllowlisted"
    ELSE ERC1155_mint_err(to)

mintTo_err(sender, to, tokenId) ==
    IF ~onlyOwner(sender) THEN "OwnableUnauthorizedAccount"
    ELSE IF passports.entered THEN "ReentrancyGuardReentrantCall"
    ELSE IF ~passportTypeOf(tokenId).exists THEN "PassportTypeDoesNotExist"
    ELSE IF balanceOf(to, tokenId) > 0 THEN "AlreadyHoldsPassport"
    ELSE ERC1155_mint_err(to)

\* Mutant: the override is missing, so whoever has the balance can move it.
safeTransferFrom_err_IfFunded(sender, from, to, tokenId, value) ==
    IF balanceOf(from, tokenId) >= value THEN OK ELSE "ERC1155InsufficientBalance"

\* Mutant: the holder itself may transfer (the ERC1155 default).
safeTransferFrom_err_HolderMayTransfer(sender, from, to, tokenId, value) ==
    IF sender = from THEN OK ELSE "TransfersNotAllowed"

\* safeTransferFrom, lines 386-388: pure, reverts whatever the arguments.
safeTransferFrom_err(sender, from, to, tokenId, value) == "TransfersNotAllowed"

\* safeBatchTransferFrom, lines 393-401.
safeBatchTransferFrom_err(sender, from, to, tokenIds, values) == "TransfersNotAllowed"

\* What ERC1155 would do on a transfer that did not revert: move the value.
ERC1155_transfer_state(from, to, tokenId, value) ==
    [passports EXCEPT !.balances[<<from, tokenId>>] = @ - value,
                      !.balances[<<to, tokenId>>] = @ + value]

RECURSIVE ERC1155_batchTransfer_state(_, _, _, _, _, _)
ERC1155_batchTransfer_state(p, from, to, tokenIds, values, i) ==
    IF i > Len(tokenIds) THEN p
    ELSE ERC1155_batchTransfer_state(
            [p EXCEPT !.balances[<<from, tokenIds[i]>>] = @ - values[i],
                      !.balances[<<to, tokenIds[i]>>] = @ + values[i]],
            from, to, tokenIds, values, i + 1)

\* uri, lines 334-337.
uri_err(tokenId) == IF ~passportTypeOf(tokenId).exists THEN "PassportTypeDoesNotExist" ELSE OK

\* nextTokenId, lines 377-379.
nextTokenId == passports.nextTokenId

\* ============================================================ Contest.sol
EmptyContest ==
    [exists |-> FALSE, initialized |-> FALSE, entered |-> FALSE, assemblyAddress |-> ZeroAddr,
     passports |-> ZeroAddr, prompt |-> "", options |-> <<>>, votingEnd |-> 0,
     requiredPassports |-> <<>>, voteTally |-> [i \in OptionIdx |-> 0],
     hasVoted |-> [a \in Accounts |-> FALSE],
     userVote |-> [a \in Accounts |-> 0], totalVotes |-> 0]

\* A freshly deployed (or cloned) Contest: zeroed storage.
DeployedContest == [EmptyContest EXCEPT !.exists = TRUE]

\* Contest.__init, lines 88-98: the checks, in order.
RECURSIVE HasEmptyOption(_, _)
HasEmptyOption(opts, i) ==
    IF i > Len(opts) THEN FALSE
    ELSE IF Len0(opts[i]) = 0 THEN TRUE
    ELSE HasEmptyOption(opts, i + 1)

\* Mutant: __init without the _initialized guard of line 88.
Contest__init_err_NoGuard(c, prompt_, options_, duration_) ==
    IF Len0(prompt_) = 0 THEN "EmptyPrompt"
    ELSE IF Len(options_) < 2 THEN "NotEnoughOptions"
    ELSE IF Len(options_) > MAX_OPTIONS THEN "TooManyOptions"
    ELSE IF duration_ = 0 THEN "InvalidVotingPeriod"
    ELSE IF HasEmptyOption(options_, 1) THEN "EmptyOption"
    ELSE IF now + duration_ > UintMax THEN "Panic(0x11)"
    ELSE OK

\* Mutant: the option loop of lines 95-97 looks at the first option only.
Contest__init_err_FirstOptionOnly(c, prompt_, options_, duration_) ==
    IF c.initialized THEN "AlreadyInitialized"
    ELSE IF Len0(prompt_) = 0 THEN "EmptyPrompt"
    ELSE IF Len(options_) < 2 THEN "NotEnoughOptions"
    ELSE IF Len(options_) > MAX_OPTIONS THEN "TooManyOptions"
    ELSE IF duration_ = 0 THEN "InvalidVotingPeriod"
    ELSE IF Len0(options_[1]) = 0 THEN "EmptyOption"
    ELSE IF now + duration_ > UintMax THEN "Panic(0x11)"
    ELSE OK

\* The last branch is the checked addition of line 104, which reverts on
\* overflow before the call has any lasting effect.
Contest__init_err(c, prompt_, options_, duration_) ==
    IF c.initialized THEN "AlreadyInitialized"
    ELSE IF Len0(prompt_) = 0 THEN "EmptyPrompt"
    ELSE IF Len(options_) < 2 THEN "NotEnoughOptions"
    ELSE IF Len(options_) > MAX_OPTIONS THEN "TooManyOptions"
    ELSE IF duration_ = 0 THEN "InvalidVotingPeriod"
    ELSE IF HasEmptyOption(options_, 1) THEN "EmptyOption"
    ELSE IF now + duration_ > UintMax THEN "Panic(0x11)"
    ELSE OK

\* Contest.__init, lines 100-106: the assignments.
Contest__init_state(c, assembly_, passports_, prompt_, options_, duration_, required_) ==
    [c EXCEPT !.assemblyAddress = assembly_,
              !.passports = passports_,
              !.prompt = prompt_,
              !.options = options_,
              !.votingEnd = now + duration_,
              !.requiredPassports = required_,
              !.initialized = TRUE]

\* Mutant: the deadline instant itself still counts as active.
votingActive_Inclusive(c) == now <= c.votingEnd

\* votingActive modifier, lines 59-62.
votingActive(c) == now < c.votingEnd

\* Mutant: vote without the hasVoted check of line 119.
vote_err_NoVotedCheck(c, sender, optionIndex) ==
    IF ~votingActive(c) THEN "VotingEnded"
    ELSE IF ~c.initialized THEN "NotInitialized"
    ELSE IF optionIndex >= Len(c.options) THEN "InvalidOption"
    ELSE IF Len(c.requiredPassports) > 0
        THEN IF ~PassportsCallable(c.passports) THEN "CallReverted"
             ELSE IF ~holdsAnyPassportAt(c.passports, sender, c.requiredPassports)
                  THEN "MissingRequiredPassport"
             ELSE OK
    ELSE OK

\* vote, lines 117-127: the modifiers (nonReentrant, votingActive) run
\* before the body.
vote_err(c, sender, optionIndex) ==
    IF c.entered THEN "ReentrancyGuardReentrantCall"
    ELSE IF ~votingActive(c) THEN "VotingEnded"
    ELSE IF ~c.initialized THEN "NotInitialized"
    ELSE IF c.hasVoted[sender] THEN "AlreadyVoted"
    ELSE IF optionIndex >= Len(c.options) THEN "InvalidOption"
    ELSE IF Len(c.requiredPassports) > 0
        THEN IF ~PassportsCallable(c.passports) THEN "CallReverted"
             ELSE IF ~holdsAnyPassportAt(c.passports, sender, c.requiredPassports)
                  THEN "MissingRequiredPassport"
             ELSE OK
    ELSE OK

\* Mutant: the tally written is that of option 0, whatever the option voted.
vote_state_FirstTally(c, sender, optionIndex) ==
    [c EXCEPT !.hasVoted[sender] = TRUE,
              !.userVote[sender] = optionIndex,
              !.voteTally[0] = @ + 1,
              !.totalVotes = @ + 1]

\* Mutant: vote without the totalVotes increment of line 133.
vote_state_NoTotal(c, sender, optionIndex) ==
    [c EXCEPT !.hasVoted[sender] = TRUE,
              !.userVote[sender] = optionIndex,
              !.voteTally[optionIndex] = @ + 1]

\* vote, lines 129-133: the assignments.
vote_state(c, sender, optionIndex) ==
    [c EXCEPT !.hasVoted[sender] = TRUE,
              !.userVote[sender] = optionIndex,
              !.voteTally[optionIndex] = @ + 1,
              !.totalVotes = @ + 1]

\* getResults, lines 160-169.
getResults(c) ==
    [optionNames |-> c.options,
     votes |-> [i \in 1..Len(c.options) |-> c.voteTally[i - 1]],
     total |-> c.totalVotes]

\* Mutant: a later option with an equal tally replaces the running best.
RECURSIVE getWinnerLoop_LastMax(_, _, _, _)
getWinnerLoop_LastMax(c, i, winningIndex, winningVotes) ==
    IF i >= Len(c.options) THEN [winningIndex |-> winningIndex, winningVotes |-> winningVotes]
    ELSE IF c.voteTally[i] >= winningVotes
         THEN getWinnerLoop_LastMax(c, i + 1, i, c.voteTally[i])
         ELSE getWinnerLoop_LastMax(c, i + 1, winningIndex, winningVotes)

\* getWinner, lines 178-186: the scan from i = 1 with the running best.
RECURSIVE getWinnerLoop(_, _, _, _)
getWinnerLoop(c, i, winningIndex, winningVotes) ==
    IF i >= Len(c.options) THEN [winningIndex |-> winningIndex, winningVotes |-> winningVotes]
    ELSE IF c.voteTally[i] > winningVotes
         THEN getWinnerLoop(c, i + 1, i, c.voteTally[i])
         ELSE getWinnerLoop(c, i + 1, winningIndex, winningVotes)

\* Mutant: getWinner without its votingComplete modifier.
getWinner_err_NoModifier(c) == OK

\* getWinner with its votingComplete modifier (lines 64-67, 177).
getWinner_err(c) == IF now < c.votingEnd THEN "VotingNotEnded" ELSE OK

getWinner(c) == getWinnerLoop(c, 1, 0, c.voteTally[0])

\* Mutant: isActive that still holds at the deadline instant.
isActive_Inclusive(c) == c.initialized /\ now <= c.votingEnd

\* isActive, lines 192-194.
isActive(c) == c.initialized /\ now < c.votingEnd

\* canVote, lines 200-215: whether the call reverts (only the passport call
\* can), and whether it returns true.
canVote_err(c, voter) ==
    IF c.initialized /\ now < c.votingEnd /\ ~c.hasVoted[voter]
       /\ Len(c.requiredPassports) > 0 /\ ~PassportsCallable(c.passports)
    THEN "CallReverted" ELSE OK

\* Mutant: canVote without the passport check of lines 210-212.
canVote_NoGate(c, voter) ==
    IF ~c.initialized THEN FALSE
    ELSE IF now >= c.votingEnd THEN FALSE
    ELSE IF c.hasVoted[voter] THEN FALSE
    ELSE TRUE

\* Mutant: canVote without the hasVoted check of line 207.
canVote_NoVotedCheck(c, voter) ==
    IF ~c.initialized THEN FALSE
    ELSE IF now >= c.votingEnd THEN FALSE
    ELSE IF Len(c.requiredPassports) > 0
        THEN PassportsCallable(c.passports)
             /\ holdsAnyPassportAt(c.passports, voter, c.requiredPassports)
    ELSE TRUE

canVote(c, voter) ==
    IF ~c.initialized THEN FALSE
    ELSE IF now >= c.votingEnd THEN FALSE
    ELSE IF c.hasVoted[voter] THEN FALSE
    ELSE IF Len(c.requiredPassports) > 0
        THEN PassportsCallable(c.passports)
             /\ holdsAnyPassportAt(c.passports, voter, c.requiredPassports)
    ELSE TRUE

\* timeRemaining, lines 221-224.
timeRemaining(c) == IF ~c.initialized \/ now >= c.votingEnd THEN 0 ELSE c.votingEnd - now

\* isGated, lines 229-231.
isGated(c) == Len(c.requiredPassports) > 0

\* ============================================================ Assembly.sol
ADMIN_ROLE == "ADMIN_ROLE"
DEFAULT_ADMIN_ROLE == "DEFAULT_ADMIN_ROLE"

\* A cloned Assembly before __init: zeroed storage.
ClonedAssembly ==
    [initialized |-> FALSE, entered |-> FALSE, contestImplementation |-> ZeroAddr,
     passports |-> ZeroAddr, metadataURI |-> "", contests |-> <<>>,
     adminList |-> <<>>, isAdminFlag |-> {},
     roles |-> [r \in {ADMIN_ROLE, DEFAULT_ADMIN_ROLE} |-> {}]]

\* Mutant: every clone uses one passport contract instead of deploying its own.
PassportsAddrOf_Shared(self) == IF self = AssemblyAddr THEN PassportsAddr ELSE PassportsAddr + 100

\* Line 89: the address of the passport contract that the Assembly at
\* address self deploys in __init.
PassportsAddrOf(self) == IF self = AssemblyAddr THEN PassportsAddr ELSE self + 100

\* AccessControl.hasRole.
hasRole(role, account) == account \in assembly.roles[role]

\* AccessControl.getRoleAdmin: no role admin is ever set, so every role is
\* administered by DEFAULT_ADMIN_ROLE.
getRoleAdmin(role) == DEFAULT_ADMIN_ROLE

\* AccessControl.onlyRole(role): the error it reverts with.
onlyRole_err(role, sender) ==
    IF hasRole(role, sender) THEN OK
    ELSE IF role = ADMIN_ROLE THEN "AccessControlUnauthorizedAccount(ADMIN_ROLE)"
    ELSE "AccessControlUnauthorizedAccount(DEFAULT_ADMIN_ROLE)"

\* whenInitialized modifier, lines 101-104.
whenInitialized_err == IF ~assembly.initialized THEN "NotInitialized" ELSE OK

\* Mutant: the caller is checked against the enumeration flag _isAdmin
\* instead of the role.
adminOnly_err_ListFlag(sender) ==
    IF sender \notin assembly.isAdminFlag THEN "AccessControlUnauthorizedAccount(ADMIN_ROLE)"
    ELSE whenInitialized_err

\* Mutant: the admin functions without their two modifiers.
adminOnly_err_NoModifiers(sender) == OK

\* The modifiers of every admin function: onlyRole(ADMIN_ROLE) whenInitialized.
adminOnly_err(sender) ==
    IF onlyRole_err(ADMIN_ROLE, sender) # OK THEN onlyRole_err(ADMIN_ROLE, sender)
    ELSE whenInitialized_err

\* AccessControl._grantRole / _revokeRole on the role sets.
grantRole_state(a, role, account) == [a EXCEPT !.roles[role] = @ \cup {account}]
revokeRole_state(a, role, account) == [a EXCEPT !.roles[role] = @ \ {account}]

\* AccessControl.grantRole / revokeRole (public): onlyRole(getRoleAdmin(role)).
grantRole_err(sender, role) == onlyRole_err(getRoleAdmin(role), sender)
revokeRole_err(sender, role) == onlyRole_err(getRoleAdmin(role), sender)

\* AccessControl.renounceRole(role, callerConfirmation).
renounceRole_err(sender, callerConfirmation) ==
    IF callerConfirmation # sender THEN "AccessControlBadConfirmation" ELSE OK

\* Mutant: __init without the _initialized guard of line 76.
Assembly__init_err_NoGuard(creator, metadataURI_, contestImplementation_) ==
    IF Len0(metadataURI_) = 0 THEN "EmptyMetadataURI"
    ELSE IF contestImplementation_ = ZeroAddr THEN "InvalidContestImplementation"
    ELSE OK

\* __init, lines 75-78: the checks, on the storage a of the Assembly called.
Assembly__init_errOn(a, creator, metadataURI_, contestImplementation_) ==
    IF a.initialized THEN "AlreadyInitialized"
    ELSE IF Len0(metadataURI_) = 0 THEN "EmptyMetadataURI"
    ELSE IF contestImplementation_ = ZeroAddr THEN "InvalidContestImplementation"
    ELSE OK

\* __init called on the unit.
Assembly__init_err(creator, metadataURI_, contestImplementation_) ==
    Assembly__init_errOn(assembly, creator, metadataURI_, contestImplementation_)

\* __init, lines 80-94: the assignments (the passport contract is deployed
\* by the same call, see Assembly__init).
Assembly__init_on(a, self, creator, metadataURI_, contestImplementation_) ==
    [grantRole_state(grantRole_state(a, DEFAULT_ADMIN_ROLE, creator), ADMIN_ROLE, creator)
        EXCEPT !.adminList = Append(@, creator),
               !.isAdminFlag = @ \cup {creator},
               !.passports = PassportsAddrOf(self),
               !.metadataURI = metadataURI_,
               !.contestImplementation = contestImplementation_,
               !.initialized = TRUE]

Assembly__init_state(creator, metadataURI_, contestImplementation_) ==
    Assembly__init_on(assembly, AssemblyAddr, creator, metadataURI_, contestImplementation_)

\* addAdmin, lines 112-119: the modifiers, then the public grantRole, which
\* checks the caller against the role's admin role.
addAdmin_err(sender, newAdmin) ==
    IF adminOnly_err(sender) # OK THEN adminOnly_err(sender)
    ELSE grantRole_err(sender, ADMIN_ROLE)

\* Mutant: the push of line 114 is decided by the role, not by _isAdmin.
addAdmin_state_PushIfNoRole(newAdmin) ==
    LET listed == IF newAdmin \notin assembly.roles[ADMIN_ROLE]
                  THEN [assembly EXCEPT !.adminList = Append(@, newAdmin),
                                        !.isAdminFlag = @ \cup {newAdmin}]
                  ELSE assembly
    IN grantRole_state(listed, ADMIN_ROLE, newAdmin)

addAdmin_state(newAdmin) ==
    LET listed == IF newAdmin \notin assembly.isAdminFlag
                  THEN [assembly EXCEPT !.adminList = Append(@, newAdmin),
                                        !.isAdminFlag = @ \cup {newAdmin}]
                  ELSE assembly
    IN grantRole_state(listed, ADMIN_ROLE, newAdmin)

\* removeAdmin, lines 125-128.
removeAdmin_err(sender, admin) ==
    IF adminOnly_err(sender) # OK THEN adminOnly_err(sender)
    ELSE revokeRole_err(sender, ADMIN_ROLE)

\* Mutant: removeAdmin also takes the address out of _adminList and _isAdmin.
removeAdmin_state_Unlists(admin) ==
    [revokeRole_state(assembly, ADMIN_ROLE, admin)
        EXCEPT !.adminList = SelectSeq(@, LAMBDA x : x # admin),
               !.isAdminFlag = @ \ {admin}]

removeAdmin_state(admin) == revokeRole_state(assembly, ADMIN_ROLE, admin)

\* isAdmin, lines 134-136.
isAdmin(account) == hasRole(ADMIN_ROLE, account)

\* getAdminCount, lines 141-143.
getAdminCount == Len(assembly.adminList)

\* getAdminAt, lines 149-152.
getAdminAt_err(index) == IF index < Len(assembly.adminList) THEN OK ELSE "Index out of bounds"
getAdminAt(index) == assembly.adminList[index + 1]

\* updateMetadata, lines 160-167.
updateMetadata_err(sender, newURI) ==
    IF adminOnly_err(sender) # OK THEN adminOnly_err(sender)
    ELSE IF Len0(newURI) = 0 THEN "EmptyMetadataURI"
    ELSE OK

\* An external call from the Assembly to its passport contract.
passportsCall_err(inner) ==
    IF ~PassportsCallable(assembly.passports) THEN "CallReverted" ELSE inner

\* createPassportType, lines 178-185.
createPassportType_err(sender, name, metadataUri) ==
    IF adminOnly_err(sender) # OK THEN adminOnly_err(sender)
    ELSE passportsCall_err(Passports_createPassportType_err(AssemblyAddr, name, metadataUri))

\* addToPassportAllowlist, lines 192-197.
addToPassportAllowlist_err(sender, tokenId, accounts) ==
    IF adminOnly_err(sender) # OK THEN adminOnly_err(sender)
    ELSE passportsCall_err(addToAllowlist_err(AssemblyAddr, tokenId, accounts))

\* updatePassportURI, lines 204-206.
updatePassportURI_err(sender, tokenId, newUri) ==
    IF adminOnly_err(sender) # OK THEN adminOnly_err(sender)
    ELSE passportsCall_err(Passports_updatePassportURI_err(AssemblyAddr, tokenId, newUri))

\* mintPassportTo, lines 213-215.
mintPassportTo_err(sender, to, tokenId) ==
    IF adminOnly_err(sender) # OK THEN adminOnly_err(sender)
    ELSE passportsCall_err(mintTo_err(AssemblyAddr, to, tokenId))

\* createContest, lines 227-244: the modifiers, then the clone's own __init.
createContest_err(sender, prompt_, options_, duration_) ==
    IF adminOnly_err(sender) # OK THEN adminOnly_err(sender)
    ELSE IF assembly.entered THEN "ReentrancyGuardReentrantCall"
    ELSE Contest__init_err(DeployedContest, prompt_, options_, duration_)

\* The handle Clones.clone returns: the next unused contest.
NextClone == Len(assembly.contests) + 1

\* getContestCount / getContest / getAllContests, lines 249-267.
getContestCount == Len(assembly.contests)
getContest_err(index) == IF index >= Len(assembly.contests) THEN "ContestNotFound" ELSE OK
getAllContests == assembly.contests

\* getInfo, lines 304-313.
getInfo ==
    [passportContract |-> assembly.passports, metadata |-> assembly.metadataURI,
     contestCount |-> Len(assembly.contests), adminCount |-> Len(assembly.adminList)]

\* =========================================================== AgoraFactory
\* (unnamed/part_006)
FactoryAddr == 100

\* The address CREATE gives the n-th contract the factory deploys: the
\* constructor deploys the Contest implementation (n = 1) and the Assembly
\* implementation (n = 2); Clones.clone deploys the following ones.
CreateAddr(n) == ContestImplAddr + n - 1
AssemblyImplAddr == 104
CloneAddrs == {CreateAddr(n) : n \in 3..(MaxAssemblies + 2)}

\* Assembly constructor, lines 50-65: the storage of the implementation.
ImplAssembly ==
    [grantRole_state(grantRole_state(ClonedAssembly, DEFAULT_ADMIN_ROLE, FactoryAddr),
                     ADMIN_ROLE, FactoryAddr)
        EXCEPT !.contestImplementation = ContestImplAddr,
               !.metadataURI = "ipfs://implementation",
               !.adminList = <<FactoryAddr>>,
               !.isAdminFlag = {FactoryAddr},
               !.initialized = TRUE]

\* Factory constructor, lines 35-48.  deployed: the Assembly contracts the
\* factory has created; units: their storage; issuers: the storage of the
\* passport contract each of them deploys in __init (Assembly.sol line 89),
\* by address; votes: the storage of the first contest each of them creates.
\* Both are empty until the contracts are deployed.
NewFactory ==
    [assemblyImplementation |-> AssemblyImplAddr,
     contestImplementation |-> ContestImplAddr,
     nonce |-> 3,
     assemblies |-> <<>>,
     isAssembly |-> {},
     assembliesByCreator |-> [u \in Users |-> <<>>],
     deployed |-> {AssemblyImplAddr},
     units |-> [h \in CloneAddrs \cup {AssemblyImplAddr} |->
                  IF h = AssemblyImplAddr THEN ImplAssembly ELSE ClonedAssembly],
     issuers |-> [i \in {} |-> NoPassports],
     votes |-> [h \in {} |-> EmptyContest]]

\* createAssembly, lines 58-64: the check, then __init on the fresh clone.
createAssembly_err(sender, metadataURI_) ==
    IF Len0(metadataURI_) = 0 THEN "EmptyMetadataURI"
    ELSE Assembly__init_errOn(ClonedAssembly, sender, metadataURI_, factory.contestImplementation)

\* Mutant: the new Assembly is recorded under the factory's address in
\* isAssembly instead of under its own.
createAssembly_state_MarksOther(sender, metadataURI_) ==
    LET assemblyAddress == CreateAddr(factory.nonce)
    IN [factory EXCEPT
          !.nonce = @ + 1,
          !.deployed = @ \cup {assemblyAddress},
          !.units[assemblyAddress] =
              Assembly__init_on(ClonedAssembly, assemblyAddress, sender, metadataURI_,
                                factory.contestImplementation),
          !.issuers = (PassportsAddrOf(assemblyAddress) :> NewPassports(assemblyAddress)) @@ @,
          !.assemblies = Append(@, assemblyAddress),
          !.isAssembly = @ \cup {factory.assemblyImplementation},
          !.assembliesByCreator[sender] = Append(@, assemblyAddress)]

\* Mutant: the new Assembly is not added to its creator's list (line 70).
createAssembly_state_NoCreatorList(sender, metadataURI_) ==
    LET assemblyAddress == CreateAddr(factory.nonce)
    IN [factory EXCEPT
          !.nonce = @ + 1,
          !.deployed = @ \cup {assemblyAddress},
          !.units[assemblyAddress] =
              Assembly__init_on(ClonedAssembly, assemblyAddress, sender, metadataURI_,
                                factory.contestImplementation),
          !.issuers = (PassportsAddrOf(assemblyAddress) :> NewPassports(assemblyAddress)) @@ @,
          !.assemblies = Append(@, assemblyAddress),
          !.isAssembly = @ \cup {assemblyAddress}]

\* createAssembly, lines 61-70: clone, initialize, track.
createAssembly_state(sender, metadataURI_) ==
    LET assemblyAddress == CreateAddr(factory.nonce)
    IN [factory EXCEPT
          !.nonce = @ + 1,
          !.deployed = @ \cup {assemblyAddress},
          !.units[assemblyAddress] =
              Assembly__init_on(ClonedAssembly, assemblyAddress, sender, metadataURI_,
                                factory.contestImplementation),
          !.issuers = (PassportsAddrOf(assemblyAddress) :> NewPassports(assemblyAddress)) @@ @,
          !.assemblies = Append(@, assemblyAddress),
          !.isAssembly = @ \cup {assemblyAddress},
          !.assembliesByCreator[sender] = Append(@, assemblyAddress)]

\* getAssemblyCount / getAssembly / getAllAssemblies, lines 80-98.
getAssemblyCount == Len(factory.assemblies)
\* Mutant: the bounds check of line 89 admits index = length.
getAssembly_err_OffByOne(index) ==
    IF index > Len(factory.assemblies) THEN "AssemblyNotFound" ELSE OK

getAssembly_err(index) == IF index >= Len(factory.assemblies) THEN "AssemblyNotFound" ELSE OK
getAssembly(index) == factory.assemblies[index + 1]
getAllAssemblies == factory.assemblies

\* getAssembliesByCreator, lines 104-106.
getAssembliesByCreator(creator) ==
    IF creator \in DOMAIN factory.assembliesByCreator
    THEN factory.assembliesByCreator[creator] ELSE <<>>

\* verifyAssembly, lines 160-162.
verifyAssembly(potentialAssembly) == potentialAssembly \in factory.isAssembly

\* getAssembliesPaginated, line 125: end = offset + limit in checked
\* arithmetic, which reverts with Panic(0x11) when the sum leaves the range.
getAssembliesPaginated_err(offset, limit) ==
    IF offset >= Len(factory.assemblies) THEN OK
    ELSE IF offset + limit > UintMax THEN "Panic(0x11)"
    ELSE OK

\* Lines 133-135: the copy loop, from index i (0-based, as in the code).
RECURSIVE paginatedLoop(_, _, _, _)
paginatedLoop(paginatedAssemblies, i, resultLength, offset) ==
    IF i < resultLength
    THEN paginatedLoop(Append(paginatedAssemblies, factory.assemblies[offset + i + 1]),
                       i + 1, resultLength, offset)
    ELSE paginatedAssemblies

\* getAssembliesPaginated, lines 115-136: the value returned when the call
\* does not revert.
getAssembliesPaginated(offset, limit) ==
    LET total == Len(factory.assemblies)
        sum == offset + limit
        end == IF sum > total THEN total ELSE sum
    IN IF offset >= total
       THEN [paginatedAssemblies |-> <<>>, total |-> total]
       ELSE [paginatedAssemblies |-> paginatedLoop(<<>>, 0, end - offset, offset),
             total |-> total]

\* Mutant: the loop fills the result oldest first.
RECURSIVE recentLoop_OldestFirst(_, _, _, _)
recentLoop_OldestFirst(recentAssemblies, i, count, total) ==
    IF i < count
    THEN recentLoop_OldestFirst(Append(recentAssemblies, factory.assemblies[i + 1]),
                                i + 1, count, total)
    ELSE recentAssemblies

\* Lines 151-153: recentAssemblies[i] = assemblies[total - 1 - i].
RECURSIVE recentLoop(_, _, _, _)
recentLoop(recentAssemblies, i, count, total) ==
    IF i < count
    THEN recentLoop(Append(recentAssemblies, factory.assemblies[(total - 1 - i) + 1]),
                    i + 1, count, total)
    ELSE recentAssemblies

\* getRecentAssemblies, line 152: total - 1 - i in checked arithmetic, for
\* every i the loop visits.
getRecentAssemblies_err(count) ==
    LET total == Len(factory.assemblies)
        clamped == IF count > total THEN total ELSE count
    IN IF \E i \in 0..(clamped - 1) : total - 1 - i < 0 THEN "Panic(0x11)" ELSE OK

\* getRecentAssemblies, lines 142-154.
getRecentAssemblies(count) ==
    LET total == Len(factory.assemblies)
        clamped == IF count > total THEN total ELSE count
    IN recentLoop(<<>>, 0, clamped, total)

\* getFactoryInfo, lines 171-180.
getFactoryInfo ==
    [factory |-> FactoryAddr, assemblyImpl |-> factory.assemblyImplementation,
     contestImpl |-> factory.contestImplementation,
     totalAssemblies |-> Len(factory.assemblies)]

\* ================================================================ actions
\* The state after deployment: the clock at a positive timestamp, an
\* Assembly clone not yet initialized (so no passport contract yet), and the
\* Contest implementation with zeroed storage.
Init ==
    /\ now = 1
    /\ assembly = ClonedAssembly
    /\ passports = NoPassports
    /\ contests = [c \in ContestIds |-> IF c = ImplContest THEN DeployedContest ELSE EmptyContest]
    /\ factory = NewFactory
    /\ calls = <<>>

\* block.timestamp advances between calls.
Tick ==
    /\ now < MaxTime
    /\ now' = now + 1
    /\ UNCHANGED <<assembly, passports, contests, factory, calls>>

\* ---- Assembly
Assembly__init(creator, metadataURI_, contestImplementation_) ==
    /\ IF Assembly__init_err(creator, metadataURI_, contestImplementation_) = OK
       THEN /\ assembly' = Assembly__init_state(creator, metadataURI_, contestImplementation_)
            /\ passports' = NewPassports(AssemblyAddr)
       ELSE UNCHANGED <<assembly, passports>>
    /\ UNCHANGED <<now, calls, factory, contests>>

addAdmin(sender, newAdmin) ==
    /\ assembly' = IF addAdmin_err(sender, newAdmin) = OK THEN addAdmin_state(newAdmin) ELSE assembly
    /\ UNCHANGED <<now, calls, factory, passports, contests>>

removeAdmin(sender, admin) ==
    /\ assembly' = IF removeAdmin_err(sender, admin) = OK THEN removeAdmin_state(admin) ELSE assembly
    /\ UNCHANGED <<now, calls, factory, passports, contests>>

grantRole(sender, role, account) ==
    /\ assembly' = IF grantRole_err(sender, role) = OK
                   THEN grantRole_state(assembly, role, account) ELSE assembly
    /\ UNCHANGED <<now, calls, factory, passports, contests>>

revokeRole(sender, role, account) ==
    /\ assembly' = IF revokeRole_err(sender, role) = OK
                   THEN revokeRole_state(assembly, role, account) ELSE assembly
    /\ UNCHANGED <<now, calls, factory, passports, contests>>

renounceRole(sender, role, callerConfirmation) ==
    /\ assembly' = IF renounceRole_err(sender, callerConfirmation) = OK
                   THEN revokeRole_state(assembly, role, sender) ELSE assembly
    /\ UNCHANGED <<now, calls, factory, passports, contests>>

updateMetadata(sender, newURI) ==
    /\ assembly' = IF updateMetadata_err(sender, newURI) = OK
                   THEN [assembly EXCEPT !.metadataURI = newURI] ELSE assembly
    /\ UNCHANGED <<now, calls, factory, passports, contests>>

createPassportType(sender, name, metadataUri, isOpen) ==
    /\ passports.nextTokenId <= MaxTypes
    /\ passports' = IF createPassportType_err(sender, name, metadataUri) = OK
                    THEN Passports_createPassportType_state(name, metadataUri, isOpen)
                    ELSE passports
    /\ UNCHANGED <<now, calls, factory, assembly, contests>>

addToPassportAllowlist(sender, tokenId, accounts) ==
    /\ passports' = IF addToPassportAllowlist_err(sender, tokenId, accounts) = OK
                    THEN addToAllowlist_state(tokenId, accounts) ELSE passports
    /\ UNCHANGED <<now, calls, factory, assembly, contests>>

updatePassportURI(sender, tokenId, newUri) ==
    /\ passports' = IF updatePassportURI_err(sender, tokenId, newUri) = OK
                    THEN Passports_updatePassportURI_state(tokenId, newUri) ELSE passports
    /\ UNCHANGED <<now, calls, factory, assembly, contests>>

mintPassportTo(sender, to, tokenId) ==
    /\ passports' = IF mintPassportTo_err(sender, to, tokenId) = OK
                    THEN ERC1155_mint_state(to, tokenId) ELSE passports
    /\ UNCHANGED <<now, calls, factory, assembly, contests>>

\* Mutant: the new handle is put in front of _contests instead of at its end.
createContest_Prepends(sender, prompt_, options_, duration_, required_) ==
    /\ Len(assembly.contests) < MaxContests
    /\ IF createContest_err(sender, prompt_, options_, duration_) = OK
       THEN /\ contests' = [contests EXCEPT ![NextClone] =
                   Contest__init_state(DeployedContest, AssemblyAddr, assembly.passports,
                                       prompt_, options_, duration_, required_)]
            /\ assembly' = [assembly EXCEPT !.contests = <<NextClone>> \o @]
       ELSE UNCHANGED <<assembly, contests>>
    /\ UNCHANGED <<now, calls, factory, passports>>

\* Mutant: the clone of line 234 survives a failure of its __init (line 237).
createContest_KeepsClone(sender, prompt_, options_, duration_, required_) ==
    /\ Len(assembly.contests) < MaxContests
    /\ IF createContest_err(sender, prompt_, options_, duration_) = OK
       THEN /\ contests' = [contests EXCEPT ![NextClone] =
                   Contest__init_state(DeployedContest, AssemblyAddr, assembly.passports,
                                       prompt_, options_, duration_, required_)]
            /\ assembly' = [assembly EXCEPT !.contests = Append(@, NextClone)]
       ELSE IF adminOnly_err(sender) = OK
       THEN /\ contests' = [contests EXCEPT ![NextClone] = DeployedContest]
            /\ UNCHANGED assembly
       ELSE UNCHANGED <<assembly, contests>>
    /\ UNCHANGED <<now, calls, factory, passports>>

createContest(sender, prompt_, options_, duration_, required_) ==
    /\ Len(assembly.contests) < MaxContests
    /\ IF createContest_err(sender, prompt_, options_, duration_) = OK
       THEN /\ contests' = [contests EXCEPT ![NextClone] =
                   Contest__init_state(DeployedContest, AssemblyAddr, assembly.passports,
                                       prompt_, options_, duration_, required_)]
            /\ assembly' = [assembly EXCEPT !.contests = Append(@, NextClone)]
       ELSE UNCHANGED <<assembly, contests>>
    /\ UNCHANGED <<now, calls, factory, passports>>

\* ---- AssemblyPassports, called directly
Passports_createPassportType(sender, name, metadataUri, isOpen) ==
    /\ passports.exists
    /\ passports.nextTokenId \in TokenIds
    /\ passports' = IF Passports_createPassportType_err(sender, name, metadataUri) = OK
                    THEN Passports_createPassportType_state(name, metadataUri, isOpen)
                    ELSE passports
    /\ UNCHANGED <<now, calls, factory, assembly, contests>>

addToAllowlist(sender, tokenId, accounts) ==
    /\ passports.exists
    /\ passports' = IF addToAllowlist_err(sender, tokenId, accounts) = OK
                    THEN addToAllowlist_state(tokenId, accounts) ELSE passports
    /\ UNCHANGED <<now, calls, factory, assembly, contests>>

Passports_updatePassportURI(sender, tokenId, newUri) ==
    /\ passports.exists
    /\ passports' = IF Passports_updatePassportURI_err(sender, tokenId, newUri) = OK
                    THEN Passports_updatePassportURI_state(tokenId, newUri) ELSE passports
    /\ UNCHANGED <<now, calls, factory, assembly, contests>>

transferOwnership(sender, newOwner) ==
    /\ passports.exists
    /\ passports' = IF transferOwnership_err(sender, newOwner) = OK
                    THEN [passports EXCEPT !.owner = newOwner] ELSE passports
    /\ UNCHANGED <<now, calls, factory, assembly, contests>>

renounceOwnership(sender) ==
    /\ passports.exists
    /\ passports' = IF renounceOwnership_err(sender) = OK
                    THEN [passports EXCEPT !.owner = ZeroAddr] ELSE passports
    /\ UNCHANGED <<now, calls, factory, assembly, contests>>

mint(sender, tokenId) ==
    /\ passports.exists
    /\ passports' = IF mint_err(sender, tokenId) = OK
                    THEN ERC1155_mint_state(sender, tokenId) ELSE passports
    /\ UNCHANGED <<now, calls, factory, assembly, contests>>

mintTo(sender, to, tokenId) ==
    /\ passports.exists
    /\ passports' = IF mintTo_err(sender, to, tokenId) = OK
                    THEN ERC1155_mint_state(to, tokenId) ELSE passports
    /\ UNCHANGED <<now, calls, factory, assembly, contests>>

safeTransferFrom(sender, from, to, tokenId, value) ==
    /\ passports.exists
    /\ passports' = IF safeTransferFrom_err(sender, from, to, tokenId, value) = OK
                    THEN ERC1155_transfer_state(from, to, tokenId, value) ELSE passports
    /\ UNCHANGED <<now, calls, factory, assembly, contests>>

safeBatchTransferFrom(sender, from, to, tokenIds, values) ==
    /\ passports.exists
    /\ passports' = IF safeBatchTransferFrom_err(sender, from, to, tokenIds, values) = OK
                    THEN ERC1155_batchTransfer_state(passports, from, to, tokenIds, values, 1)
                    ELSE passports
    /\ UNCHANGED <<now, calls, factory, assembly, contests>>

\* ---- AgoraFactory
createAssembly(sender, metadataURI_) ==
    /\ Len(factory.assemblies) < MaxAssemblies
    /\ factory' = IF createAssembly_err(sender, metadataURI_) = OK
                  THEN createAssembly_state(sender, metadataURI_) ELSE factory
    /\ UNCHANGED <<now, calls, assembly, passports, contests>>

\* __init called directly (by anyone) on an Assembly the factory deployed.
Unit__init(h, creator, metadataURI_, contestImplementation_) ==
    /\ h \in factory.deployed
    /\ factory' = IF Assembly__init_errOn(factory.units[h], creator, metadataURI_,
                                         contestImplementation_) = OK
                  THEN [factory EXCEPT !.units[h] =
                           Assembly__init_on(factory.units[h], h, creator, metadataURI_,
                                             contestImplementation_)]
                  ELSE factory
    /\ UNCHANGED <<now, calls, assembly, passports, contests>>

\* ---- Contest
Contest__init(cid, assembly_, passports_, prompt_, options_, duration_, required_) ==
    /\ contests[cid].exists
    /\ contests' = IF Contest__init_err(contests[cid], prompt_, options_, duration_) = OK
                   THEN [contests EXCEPT ![cid] =
                            Contest__init_state(contests[cid], assembly_, passports_,
                                                prompt_, options_, duration_, required_)]
                   ELSE contests
    /\ UNCHANGED <<now, calls, factory, assembly, passports>>

vote(cid, sender, optionIndex) ==
    /\ contests[cid].exists
    /\ contests' = IF vote_err(contests[cid], sender, optionIndex) = OK
                   THEN [contests EXCEPT ![cid] = vote_state(contests[cid], sender, optionIndex)]
                   ELSE contests
    /\ UNCHANGED <<now, calls, factory, assembly, passports>>

\* ========================================================= specifications
ValidOptionLists == {<<"A", "B">>, <<"A", "B", "C">>}
ValidDurations == 1..MaxDuration
VoteChoices == 0..2

\* ---- SpecWinner: one Contest (the implementation contract, initialized
\* directly) and the whole voter population; no unit, no gating.
NextWinner ==
    \/ Tick
    \/ \E options_ \in ValidOptionLists :
          Contest__init(ImplContest, ZeroAddr, ZeroAddr, "Pick one?", options_, 1, <<>>)
    \/ \E v \in Voters, i \in VoteChoices : vote(ImplContest, v, i)

SpecWinner == Init /\ [][NextWinner]_vars

\* ---- SpecContest: a unit, its passport types (open), self-service mints,
\* the unit's first contest, and the implementation contract initialized
\* directly as a gated contest whose passport address holds no contract.
NextContest ==
    \/ Tick
    \/ Assembly__init(1, "ipfs://a", ContestImplAddr)
    \/ \E u \in Users : createPassportType(u, "Member", "ipfs://a", TRUE)
    \/ \E u \in Users, t \in TokenIds : mint(u, t)
    \/ \E u \in Users, d \in ValidDurations, r \in RequiredLists :
          assembly.contests = <<>> /\ createContest(u, "Pick one?", <<"A", "B">>, d, r)
    \/ Contest__init(ImplContest, ZeroAddr, ZeroAddr, "Pick one?", <<"A", "B">>, 1, <<1>>)
    \/ \E c \in ContestIds, u \in Users, i \in VoteChoices : vote(c, u, i)

SpecContest == Init /\ [][NextContest]_vars

\* ---- SpecPassports: a unit and its passport contract: types (open and
\* allowlist-only), allowlists, self-service and administrative mints, and
\* transfer attempts by holders, other accounts and the owning Assembly.
AccountLists == {<<>>, <<1, 2>>} \cup {<<a>> : a \in Users}
Callers == Users \cup {AssemblyAddr}
Receivers == Users \cup {ZeroAddr}
NextUser(u) == (u % NumUsers) + 1

NextPassports ==
    \/ Assembly__init(1, "ipfs://a", ContestImplAddr)
    \/ addAdmin(1, NumUsers)
    \/ \E u \in Users, isOpen \in BOOLEAN : createPassportType(u, "Member", "ipfs://a", isOpen)
    \/ \E u \in Users, t \in TokenIds, a \in Users : addToPassportAllowlist(u, t, <<a>>)
    \/ \E u \in Users : updatePassportURI(u, 1, "ipfs://b")
    \/ \E to \in Receivers, t \in TokenIds : mintPassportTo(1, to, t)
    \/ \E u \in Users, t \in TokenIds : mint(u, t)
    \/ \E u \in Users, t \in TokenIds : mintTo(u, u, t)
    \/ \E from \in Users : \E u \in {from, AssemblyAddr} :
          safeTransferFrom(u, from, NextUser(from), 1, 1)
    \/ \E from \in Users : \E u \in {from, AssemblyAddr} :
          safeBatchTransferFrom(u, from, NextUser(from), <<1>>, <<1>>)

SpecPassports == Init /\ [][NextPassports]_vars

\* ---- SpecAssembly: the unit's own operations by every user (admin or
\* not), the role functions it inherits, and initialize calls on the unit,
\* on its contests and on the Contest implementation.
NextAssembly ==
    \/ \E creator \in Users, m \in {"", "ipfs://a"}, impl \in {ZeroAddr, ContestImplAddr} :
          Assembly__init(creator, m, impl)
    \/ \E u \in Users, x \in Users : addAdmin(u, x)
    \/ \E u \in Users, x \in Users : removeAdmin(u, x)
    \/ \E u \in Users, x \in Users : grantRole(u, ADMIN_ROLE, x)
    \/ \E u \in Users, x \in Users : revokeRole(u, ADMIN_ROLE, x)
    \/ \E u \in Users, r \in {ADMIN_ROLE, DEFAULT_ADMIN_ROLE} : renounceRole(u, r, u)
    \/ \E u \in Users : updateMetadata(u, "ipfs://b")
    \/ \E u \in Users : createPassportType(u, "Member", "ipfs://a", FALSE)
    \/ \E u \in Users : addToPassportAllowlist(u, 1, <<NumUsers>>)
    \/ \E u \in Users : updatePassportURI(u, 1, "ipfs://b")
    \/ \E u \in Users : mintPassportTo(u, NumUsers, 1)
    \/ \E u \in Users :
          assembly.contests = <<>> /\ createContest(u, "Pick one?", <<"A", "B">>, 1, <<>>)
    \/ \E c \in ContestIds :
          Contest__init(c, ZeroAddr, PassportsAddr, "Pick one?", <<"A", "B", "C">>, 1, <<1>>)

SpecAssembly == Init /\ [][NextAssembly]_vars

\* ---- SpecFactory: the factory creating Assemblies for every caller, with
\* empty and non-empty metadata; direct __init calls on the Assemblies it
\* deployed (implementation included); and an Assembly clone that somebody
\* else deployed and initializes, which the factory never sees.
NextFactory ==
    \/ \E u \in Users, m \in Strings : createAssembly(u, m)
    \/ \E h \in CloneAddrs \cup {AssemblyImplAddr}, u \in Users :
          Unit__init(h, u, "ipfs://b", ContestImplAddr)
    \/ \E u \in Users : Assembly__init(u, "ipfs://a", ContestImplAddr)

SpecFactory == Init /\ [][NextFactory]_vars

\* ---- SpecTypes: passport types and allowlists.  Types are created by the
\* owning Assembly (through an admin, and as the direct caller of the
\* passport contract) and attempted by others, with empty and non-empty
\* names and URIs; allowlists are extended with empty, single, repeated and
\* several addresses, on existing and unknown types; a URI update and a
\* mint run in between.
AllowLists == {<<>>, <<1>>, <<2>>, <<1, 1>>, <<1, 2>>}
TypeCallers == {1, AssemblyAddr}

NextTypes ==
    \/ Assembly__init(1, "ipfs://a", ContestImplAddr)
    \/ \E u \in Users : createPassportType(u, "Member", "ipfs://a", TRUE)
    \/ \E u \in TypeCallers, n \in {"", "Member"}, m \in {"", "ipfs://a"}, o \in BOOLEAN :
          Passports_createPassportType(u, n, m, o)
    \/ \E u \in TypeCallers, t \in {1, MaxTypes + 1}, l \in AllowLists : addToAllowlist(u, t, l)
    \/ \E l \in {<<>>, <<2>>} : addToPassportAllowlist(1, 1, l)
    \/ updatePassportURI(1, 1, "ipfs://b")
    \/ mint(1, 1)

SpecTypes == Init /\ [][NextTypes]_vars

\* ---- SpecIssuer: the passport contract called by accounts directly
\* (admins of the owning Assembly and others), next to the same operations
\* routed through the Assembly; the Assembly itself calls the passport
\* contract only from its admin functions.
NextIssuer ==
    \/ Assembly__init(1, "ipfs://a", ContestImplAddr)
    \/ addAdmin(1, NumUsers)
    \/ \E u \in Users, o \in BOOLEAN : createPassportType(u, "Member", "ipfs://a", o)
    \/ \E u \in Users, a \in Users : addToPassportAllowlist(u, 1, <<a>>)
    \/ \E u \in Users : updatePassportURI(u, 1, "ipfs://b")
    \/ \E u \in Users, a \in Users : mintPassportTo(u, a, 1)
    \/ \E u \in Users, o \in BOOLEAN : Passports_createPassportType(u, "Member", "ipfs://a", o)
    \/ \E u \in Users : addToAllowlist(u, 1, <<u>>)
    \/ \E u \in Users : Passports_updatePassportURI(u, 1, "ipfs://c")
    \/ \E u \in Users, a \in Users : mintTo(u, a, 1)
    \/ \E u \in Users : transferOwnership(u, u)
    \/ \E u \in Users : renounceOwnership(u)
    \/ \E u \in Users : mint(u, 1)

SpecIssuer == Init /\ [][NextIssuer]_vars

\* ---- SpecVotes: contests created through the Assembly and initialized
\* directly, with valid and invalid prompts, option lists and durations, by
\* admins and others, at different times; one account votes in between.
\* The unit's first contest and the Contest implementation take every
\* combination of arguments, later contests one fixed valid combination.
NextVotes ==
    \/ Tick
    \/ Assembly__init(1, "ipfs://a", ContestImplAddr)
    \/ \E u \in Users, p \in Prompts, o \in OptionLists, d \in Durations, r \in {<<>>, <<1>>} :
          assembly.contests = <<>> /\ createContest(u, p, o, d, r)
    \/ \E u \in Users :
          assembly.contests # <<>> /\ createContest(u, "Pick one?", <<"A", "B", "C">>, 1, <<>>)
    \/ \E p \in Prompts, o \in OptionLists, d \in Durations :
          Contest__init(ImplContest, ZeroAddr, ZeroAddr, p, o, d, <<>>)
    \/ \E c \in ContestIds \ {ImplContest} :
          Contest__init(c, ZeroAddr, ZeroAddr, "Pick one?", <<"A", "B">>, 1, <<>>)
    \/ \E c \in ContestIds : vote(c, 1, 0)

SpecVotes == Init /\ [][NextVotes]_vars

\* ---- SpecAtomic: calls that fail, and the same calls succeeding, on all
\* four contracts: validation, authorization, state-conflict and not-found
\* failures, also inside the calls one contract makes to another
\* (createAssembly to Assembly.__init, createContest to Contest.__init, the
\* Assembly's passport functions to the passport contract).
NextAtomic ==
    \/ Tick
    \/ \E m \in {"", "ipfs://a"} : createAssembly(1, m)
    \/ \E h \in CloneAddrs : Unit__init(h, 1, "ipfs://b", ContestImplAddr)
    \/ \E m \in {"", "ipfs://a"} : Assembly__init(1, m, ContestImplAddr)
    \/ \E u \in Users : addAdmin(u, NumUsers)
    \/ \E u \in Users, n \in {"", "Member"} : createPassportType(u, n, "ipfs://a", FALSE)
    \/ \E u \in Users, t \in TokenIds, l \in {<<>>, <<NumUsers>>} :
          addToPassportAllowlist(u, t, l)
    \/ \E u \in Users, a \in {ZeroAddr, 1} : mintPassportTo(u, a, 1)
    \/ \E u \in Users : mint(u, 1)
    \/ \E u \in Users : safeTransferFrom(u, u, NextUser(u), 1, 1)
    \/ \E u \in Users, o \in {<<"A">>, <<"A", "B">>}, d \in {0, 1} :
          createContest(u, "Pick one?", o, d, <<1>>)
    \/ \E c \in {ImplContest, 1} : vote(c, 1, IF c = 1 THEN 0 ELSE 2)
    \/ \E c \in ContestIds :
          Contest__init(c, ZeroAddr, ZeroAddr, "Other?", <<"X", "Y">>, MaxDuration, <<>>)

SpecAtomic == Init /\ [][NextAtomic]_vars

\* ================================================================= claims
\* Option indices a caller may pass: in range, and out of range.
AnyOption == 0..MAX_OPTIONS

\* C1 (SpecContest): for every Vote and address a, at most one vote call by
\* a ever succeeds.  (1) While the vote is active, every vote call by an
\* address that has voted fails AlreadyVoted, whatever the option index.
\* (2) hasVoted[a], once true, is never reset and a's recorded option never
\* changes.  (3) A vote step by an address that has voted changes nothing.
\* (4) A vote step by a that changes the contest is a's first: hasVoted[a]
\* goes from false to true.
C1_SecondVoteRejected ==
    \A c \in ContestIds, a \in Users, i \in AnyOption :
        (contests[c].exists /\ isActive(contests[c]) /\ contests[c].hasVoted[a])
            => vote_err(contests[c], a, i) = "AlreadyVoted"

C1_HasVotedSticky ==
    \A c \in ContestIds, a \in Accounts :
        contests[c].hasVoted[a] =>
            /\ contests'[c].hasVoted[a]
            /\ contests'[c].userVote[a] = contests[c].userVote[a]

C1_SecondVoteNoEffect ==
    \/ UNCHANGED vars
    \/ \A c \in ContestIds, a \in Users :
          contests[c].hasVoted[a] => \A i \in VoteChoices : ~vote(c, a, i)

C1_SuccessIsFirst ==
    \/ UNCHANGED contests
    \/ \A c \in ContestIds, a \in Users, i \in VoteChoices :
          vote(c, a, i) =>
              /\ ~contests[c].hasVoted[a] /\ contests'[c].hasVoted[a]
              /\ contests'[c].totalVotes = contests[c].totalVotes + 1

\* C1: at most one vote call by an address ever succeeds: a voter's later
\* calls fail AlreadyVoted and change nothing, and hasVoted is never reset.
C1_VoteOnce ==
    /\ []C1_SecondVoteRejected
    /\ [][C1_HasVotedSticky]_vars
    /\ [][C1_SecondVoteNoEffect]_vars
    /\ [][C1_SuccessIsFirst]_vars

\* C1 witness: an address has voted in a vote that is still active at a
\* later time than its creation (so a second call is possible).
C1_Witness ==
    \E c \in ContestIds, a \in Users :
        /\ contests[c].hasVoted[a] /\ isActive(contests[c])
        /\ contests[c].voteTally[contests[c].userVote[a]] = 1
        /\ now > 1

\* C5 (SpecContest): once now >= votingEnd for an initialized Vote, then
\* (1) isActive() is false and every vote call, by every caller and for
\* every option index, fails VotingEnded; (2) the vote stays ended (the
\* clock never decreases and votingEnd is never moved) and its tallies,
\* totalVotes, getResults() and getWinner() are the same after every step.
Ended(c) == contests[c].exists /\ contests[c].initialized /\ now >= contests[c].votingEnd

C5_EndedRejectsVotes ==
    \A c \in ContestIds :
        Ended(c) =>
            /\ ~isActive(contests[c])
            /\ \A a \in Accounts, i \in AnyOption :
                  vote_err(contests[c], a, i) = "VotingEnded"

C5_EndedIsFrozen ==
    \A c \in ContestIds :
        Ended(c) =>
            /\ Ended(c)'
            /\ contests'[c].voteTally = contests[c].voteTally
            /\ contests'[c].totalVotes = contests[c].totalVotes
            /\ getResults(contests[c])' = getResults(contests[c])
            /\ getWinner(contests[c])' = getWinner(contests[c])

\* C5: an ended vote rejects every vote call with VotingEnded, stays ended,
\* and its tallies, totalVotes, getResults() and getWinner() never change.
C5_EndedForever ==
    /\ []C5_EndedRejectsVotes
    /\ [][C5_EndedIsFrozen]_vars

\* C5 witness: a vote of the unit that received a vote and has ended.
C5_Witness ==
    \E c \in ContestIds :
        Ended(c) /\ c # ImplContest /\ contests[c].totalVotes > 0 /\ now = contests[c].votingEnd

\* C6 (SpecContest): for a Vote of the unit (its passport address is the
\* unit's own issuer) with a non-empty requiredPassports, a vote call that
\* passes the other checks (active, not yet voted, option in range) succeeds
\* iff the caller's balance is > 0 for at least one required type at the
\* time of the call, and fails MissingRequiredPassport otherwise; a failing
\* call changes nothing.
HoldsSomeRequired(c, a) ==
    \E k \in 1..Len(contests[c].requiredPassports) :
        balanceOf(a, contests[c].requiredPassports[k]) > 0

GatedUnitVote(c) ==
    /\ contests[c].exists /\ contests[c].initialized
    /\ assembly.initialized /\ contests[c].passports = assembly.passports
    /\ Len(contests[c].requiredPassports) > 0

PassesOtherChecks(c, a, i) ==
    /\ now < contests[c].votingEnd
    /\ ~contests[c].hasVoted[a]
    /\ i < Len(contests[c].options)

C6_GateDecides ==
    \A c \in ContestIds, a \in Users, i \in AnyOption :
        (GatedUnitVote(c) /\ PassesOtherChecks(c, a, i)) =>
            /\ (vote_err(contests[c], a, i) = OK) <=> HoldsSomeRequired(c, a)
            /\ ~HoldsSomeRequired(c, a) =>
                  vote_err(contests[c], a, i) = "MissingRequiredPassport"

C6_RejectedNoEffect ==
    \/ UNCHANGED vars
    \/ \A c \in ContestIds, a \in Users :
          (GatedUnitVote(c) /\ ~HoldsSomeRequired(c, a)) =>
              \A i \in VoteChoices : ~vote(c, a, i)

\* C6: on a gated vote, holding at least one required type decides between
\* success and MissingRequiredPassport, and the rejected call changes nothing.
C6_Gating ==
    /\ []C6_GateDecides
    /\ [][C6_RejectedNoEffect]_vars

\* C6 witness: a vote gated on several types, one address holding just one
\* of them (not the first listed) has voted, another address holds none.
C6_Witness ==
    \E c \in ContestIds, a \in Users, b \in Users :
        /\ GatedUnitVote(c) /\ Len(contests[c].requiredPassports) > 1
        /\ balanceOf(a, contests[c].requiredPassports[1]) = 0
        /\ HoldsSomeRequired(c, a) /\ contests[c].hasVoted[a]
        /\ ~HoldsSomeRequired(c, b) /\ PassesOtherChecks(c, b, 0)

\* C8 (SpecContest): in every reachable state, for every Vote and address
\* a, canVote(a) returns true iff isActive() and not hasVoted[a] and
\* (requiredPassports is empty or a holds at least one required type in the
\* Vote's issuer); it is false on an uninitialized Vote and after votingEnd.
HoldsSomeInIssuer(c, a) ==
    /\ contests[c].passports = PassportsAddr /\ passports.exists
    /\ HoldsSomeRequired(c, a)

\* C8: canVote(a) is true iff the vote is active, a has not voted, and the
\* vote is ungated or a holds a required type; false when uninitialized or ended.
C8_CanVote ==
    \A c \in ContestIds, a \in Accounts :
        contests[c].exists =>
            /\ canVote(contests[c], a) <=>
                  /\ isActive(contests[c])
                  /\ ~contests[c].hasVoted[a]
                  /\ (contests[c].requiredPassports = <<>> \/ HoldsSomeInIssuer(c, a))
            /\ ~contests[c].initialized => ~canVote(contests[c], a)
            /\ now >= contests[c].votingEnd => ~canVote(contests[c], a)

\* C8 witness: an active gated vote in which one address has voted (cannot
\* vote), one holds a required type and can, while the implementation
\* contract is uninitialized.
C8_Witness ==
    \E c \in ContestIds, a \in Users, b \in Users :
        /\ GatedUnitVote(c) /\ isActive(contests[c])
        /\ contests[c].hasVoted[a] /\ ~canVote(contests[c], a)
        /\ canVote(contests[c], b)
        /\ ~contests[ImplContest].initialized

\* C9 (SpecWinner): for an ended Vote with n options, getWinner() returns
\* (i, tally[i]) where i is the smallest index in 0..n-1 whose tally is the
\* maximum tally: ties go to the lowest index, all-zero tallies give (0, 0).
MaxTally(c) ==
    CHOOSE m \in 0..NumVoters :
        /\ \E j \in 0..(Len(contests[c].options) - 1) : contests[c].voteTally[j] = m
        /\ \A j \in 0..(Len(contests[c].options) - 1) : contests[c].voteTally[j] <= m

\* C9: getWinner() of an ended vote returns the lowest index holding the
\* maximum tally, with that tally; (0, 0) when nobody voted.
C9_LowestIndexWins ==
    \A c \in ContestIds :
        (Ended(c) /\ getWinner_err(contests[c]) = OK) =>
            LET w == getWinner(contests[c])
                n == Len(contests[c].options)
            IN /\ w.winningIndex \in 0..(n - 1)
               /\ w.winningVotes = contests[c].voteTally[w.winningIndex]
               /\ w.winningVotes = MaxTally(c)
               /\ \A j \in 0..(n - 1) :
                     contests[c].voteTally[j] = MaxTally(c) => w.winningIndex <= j
               /\ contests[c].totalVotes = 0 => (w.winningIndex = 0 /\ w.winningVotes = 0)

\* C9 witness: an ended three-option vote with tallies [3,3,1], for which
\* getWinner() returns index 0 with 3 votes.
C9_Witness ==
    /\ Ended(ImplContest)
    /\ Len(contests[ImplContest].options) = 3
    /\ contests[ImplContest].voteTally[0] = 3
    /\ contests[ImplContest].voteTally[1] = 3
    /\ contests[ImplContest].voteTally[2] = 1
    /\ getWinner(contests[ImplContest]) = [winningIndex |-> 0, winningVotes |-> 3]

\* Argument ranges for the passport claims.
AnyTokenId == 0..(MaxTypes + 1)
AnyAddress == Users \cup {ZeroAddr, AssemblyAddr}
BatchIds == {<<>>, <<1>>, <<1, MaxTypes + 1>>}
BatchValues == {<<>>, <<1>>, <<1, 1>>}

\* C2 (SpecPassports): (1) every safeTransferFrom and safeBatchTransferFrom
\* call fails TransfersNotAllowed, for every caller (holder, other account,
\* the owning Assembly) and every argument; (2) a transfer step changes
\* nothing; (3) no balance ever decreases, and a step that changes a balance
\* is a mint, mintTo or mintPassportTo step.
C2_TransfersRejected ==
    passports.exists =>
        /\ \A u \in AnyAddress, from \in AnyAddress, to \in AnyAddress,
              t \in AnyTokenId, v \in 0..2 :
              safeTransferFrom_err(u, from, to, t, v) = "TransfersNotAllowed"
        /\ \A u \in AnyAddress, from \in AnyAddress, to \in AnyAddress,
              ts \in BatchIds, vs \in BatchValues :
              safeBatchTransferFrom_err(u, from, to, ts, vs) = "TransfersNotAllowed"

C2_TransferNoEffect ==
    \/ UNCHANGED vars
    \/ \A from \in Users :
          \A u \in {from, AssemblyAddr} :
              /\ ~safeTransferFrom(u, from, NextUser(from), 1, 1)
              /\ ~safeBatchTransferFrom(u, from, NextUser(from), <<1>>, <<1>>)

C2_BalancesOnlyMinted ==
    \/ passports'.balances = passports.balances
    \/ /\ \A a \in Accounts, t \in TokenIds : balanceOf(a, t)' >= balanceOf(a, t)
       /\ \E to \in Users, t \in TokenIds :
             \/ mint(to, t)
             \/ \E u \in Callers : mintTo(u, to, t)
             \/ \E u \in Users : mintPassportTo(u, to, t)

\* C2: every transfer call fails TransfersNotAllowed and changes nothing;
\* balances never decrease and change only in mint, mintTo, mintPassportTo steps.
C2_Soulbound ==
    /\ []C2_TransfersRejected
    /\ [][C2_TransferNoEffect]_vars
    /\ [][C2_BalancesOnlyMinted]_vars

\* C2 witness: an address holds a credential that another address lacks,
\* so a transfer between them would move something.
C2_Witness ==
    \E a \in Users, t \in TokenIds :
        balanceOf(a, t) = 1 /\ balanceOf(NextUser(a), t) = 0

\* C3 (SpecPassports): for every type t and address a, balanceOf(a,t) is 0
\* or 1 in every reachable state; once a holds t, mint(t) by a fails
\* AlreadyHoldsPassport, and mintTo(a,t) fails for every caller, with
\* AlreadyHoldsPassport when called by the owner (directly, or through
\* mintPassportTo by an admin), whatever the open flag and the allowlist.
C3_BalanceIsBoolean ==
    \A a \in Accounts, t \in TokenIds : balanceOf(a, t) \in {0, 1}

C3_RemintRejected ==
    \A a \in Users, t \in TokenIds :
        balanceOf(a, t) > 0 =>
            /\ mint_err(a, t) = "AlreadyHoldsPassport"
            /\ mintTo_err(passports.owner, a, t) = "AlreadyHoldsPassport"
            /\ \A u \in AnyAddress : mintTo_err(u, a, t) # OK
            /\ \A u \in Users :
                  /\ mintPassportTo_err(u, a, t) # OK
                  /\ isAdmin(u) => mintPassportTo_err(u, a, t) = "AlreadyHoldsPassport"

\* C3: every balance is 0 or 1, and a holder's further mint and every
\* further mintTo to that holder is rejected (AlreadyHoldsPassport for the owner).
C3_AtMostOne == C3_BalanceIsBoolean /\ C3_RemintRejected

\* C3 witness: a holder of an allowlist-only type who is on its allowlist.
C3_Witness ==
    \E a \in Users, t \in TokenIds :
        /\ balanceOf(a, t) = 1
        /\ ~passportTypeOf(t).isOpen
        /\ a \in passports.allowlist[t]

\* C7 (SpecPassports): mint(t) by a succeeds iff t exists, a does not hold
\* t, and t is open or a is on t's allowlist; an unknown t fails
\* PassportTypeDoesNotExist; a caller who passes the first two checks but is
\* not allowlisted for a non-open type fails NotAllowlisted; a successful
\* mint takes balanceOf(a,t) from 0 to 1 and changes nothing else.
C7_MintDecision ==
    passports.exists =>
        \A a \in Users, t \in AnyTokenId :
            LET ty == passportTypeOf(t) IN
            /\ (mint_err(a, t) = OK) <=>
                  /\ ty.exists
                  /\ balanceOf(a, t) = 0
                  /\ (ty.isOpen \/ a \in passports.allowlist[t])
            /\ ~ty.exists => mint_err(a, t) = "PassportTypeDoesNotExist"
            /\ (ty.exists /\ balanceOf(a, t) = 0 /\ ~ty.isOpen /\ a \notin passports.allowlist[t])
                  => mint_err(a, t) = "NotAllowlisted"

C7_MintEffect ==
    \/ UNCHANGED vars
    \/ \A a \in Users, t \in TokenIds :
          (mint_err(a, t) = OK /\ mint(a, t)) =>
              /\ balanceOf(a, t) = 0 /\ balanceOf(a, t)' = 1
              /\ \A k \in DOMAIN passports.balances :
                    k # <<a, t>> => passports'.balances[k] = passports.balances[k]
              /\ passports'.passportTypes = passports.passportTypes
              /\ passports'.allowlist = passports.allowlist
              /\ passports'.nextTokenId = passports.nextTokenId
              /\ UNCHANGED <<now, calls, factory, assembly, contests>>

ImplChoices == {ZeroAddr, ContestImplAddr}

C4_ReinitRejected ==
    /\ assembly.initialized =>
          \A creator \in AnyAddress, m \in Strings, impl \in ImplChoices :
              Assembly__init_err(creator, m, impl) = "AlreadyInitialized"
    /\ \A c \in ContestIds :
          (contests[c].exists /\ contests[c].initialized) =>
              \A p \in Prompts, o \in OptionLists, d \in Durations :
                  Contest__init_err(contests[c], p, o, d) = "AlreadyInitialized"

C4_ReinitNoEffect ==
    \/ UNCHANGED vars
    \/ /\ assembly.initialized =>
             \A creator \in Users, m \in {"", "ipfs://a"}, impl \in ImplChoices :
                 ~Assembly__init(creator, m, impl)
       /\ \A c \in ContestIds :
             contests[c].initialized =>
                 ~Contest__init(c, ZeroAddr, PassportsAddr, "Pick one?", <<"A", "B", "C">>, 1, <<1>>)

ContestConfig(c) ==
    <<contests[c].initialized, contests[c].assemblyAddress, contests[c].passports,
      contests[c].prompt, contests[c].options, contests[c].votingEnd,
      contests[c].requiredPassports>>

C4_InitializedSticky ==
    /\ assembly.initialized =>
          /\ assembly'.initialized
          /\ assembly'.passports = assembly.passports
          /\ assembly'.contestImplementation = assembly.contestImplementation
    /\ \A c \in ContestIds :
          contests[c].initialized => ContestConfig(c)' = ContestConfig(c)

\* C4: on an initialized Assembly or Contest every initialize call fails
\* AlreadyInitialized and changes nothing; initialized is never cleared.
C4_InitializeOnce ==
    /\ []C4_ReinitRejected
    /\ [][C4_ReinitNoEffect]_vars
    /\ [][C4_InitializedSticky]_vars

\* C4 witness: the unit, one of its contests and the Contest implementation
\* are all initialized, and the unit's metadata pointer differs from the
\* one a repeated initialize would store.
C4_Witness ==
    /\ assembly.initialized /\ assembly.metadataURI = "ipfs://b"
    /\ Len(assembly.contests) > 0 /\ contests[assembly.contests[1]].initialized
    /\ contests[ImplContest].initialized

\* C10 (SpecAssembly): on an initialized Assembly, every call of addAdmin,
\* removeAdmin, updateMetadata, createPassportType, addToPassportAllowlist,
\* updatePassportURI, mintPassportTo and createContest by an address for
\* which isAdmin is false (1) fails with the access-control error, whatever
\* the arguments, and (2) changes nothing.
Unauthorized == "AccessControlUnauthorizedAccount(ADMIN_ROLE)"
UriChoices == {"", "ipfs://b"}
NameChoices == {"", "Member"}

C10_Unauthorized ==
    assembly.initialized =>
        \A u \in AnyAddress :
            ~isAdmin(u) =>
                /\ \A x \in Users :
                      addAdmin_err(u, x) = Unauthorized /\ removeAdmin_err(u, x) = Unauthorized
                /\ \A m \in Strings : updateMetadata_err(u, m) = Unauthorized
                /\ \A n \in NameChoices, m \in Strings :
                      createPassportType_err(u, n, m) = Unauthorized
                /\ \A t \in AnyTokenId, l \in AccountLists :
                      addToPassportAllowlist_err(u, t, l) = Unauthorized
                /\ \A t \in AnyTokenId, m \in Strings :
                      updatePassportURI_err(u, t, m) = Unauthorized
                /\ \A to \in Receivers, t \in AnyTokenId :
                      mintPassportTo_err(u, to, t) = Unauthorized
                /\ \A p \in Prompts, o \in OptionLists, d \in Durations :
                      createContest_err(u, p, o, d) = Unauthorized

C10_NoEffect ==
    \/ UNCHANGED vars
    \/ \A u \in Users :
          (assembly.initialized /\ ~isAdmin(u)) =>
              /\ assembly' # assembly =>
                    /\ \A x \in Users : ~addAdmin(u, x) /\ ~removeAdmin(u, x)
                    /\ \A m \in UriChoices : ~updateMetadata(u, m)
                    /\ \A o \in OptionLists, d \in Durations :
                          ~createContest(u, "Pick one?", o, d, <<>>)
              /\ passports' # passports =>
                    /\ \A n \in NameChoices, o \in BOOLEAN :
                          ~createPassportType(u, n, "ipfs://a", o)
                    /\ \A t \in TokenIds, a \in Users : ~addToPassportAllowlist(u, t, <<a>>)
                    /\ \A t \in TokenIds, m \in UriChoices : ~updatePassportURI(u, t, m)
                    /\ \A t \in TokenIds, a \in Users : ~mintPassportTo(u, a, t)

\* C10: on an initialized Assembly every admin function called by a
\* non-admin fails with the access-control error and changes nothing.
C10_AdminOnly ==
    /\ []C10_Unauthorized
    /\ [][C10_NoEffect]_vars

\* C10 witness: an initialized unit with a passport type and a contest, an
\* admin, and an address that was an admin (still enumerated) but no longer
\* holds the role.
C10_Witness ==
    \E u \in Users, v \in Users :
        /\ assembly.initialized /\ isAdmin(v)
        /\ ~isAdmin(u) /\ u \in assembly.isAdminFlag
        /\ passportTypeOf(1).exists

\* C11 (SpecAssembly): addAdmin and removeAdmin are authorized by the admin
\* role alone: on an initialized Assembly, for every caller u with
\* isAdmin(u), creator or not, addAdmin(x) succeeds and leaves isAdmin(x)
\* true, and removeAdmin(x) succeeds and leaves isAdmin(x) false.  The code
\* does not satisfy this: both functions go through the public grantRole /
\* revokeRole, which also demand DEFAULT_ADMIN_ROLE of the caller.
C11_AdminRoleAlone ==
    assembly.initialized =>
        \A u \in Users, x \in Users :
            isAdmin(u) =>
                /\ addAdmin_err(u, x) = OK
                /\ x \in addAdmin_state(x).roles[ADMIN_ROLE]
                /\ removeAdmin_err(u, x) = OK
                /\ x \notin removeAdmin_state(x).roles[ADMIN_ROLE]

\* C12 (SpecAssembly): (1) on an Assembly that is not initialized, every
\* call of addAdmin, removeAdmin, updateMetadata, createPassportType,
\* addToPassportAllowlist, updatePassportURI, mintPassportTo and
\* createContest fails, for every caller and argument; (2) such a step
\* changes nothing, and the only step that changes the Assembly's storage
\* is the one that initializes it; (3) an initialized Assembly stays
\* initialized.
C12_UninitializedRejects ==
    ~assembly.initialized =>
        \A u \in AnyAddress :
            /\ \A x \in Users : addAdmin_err(u, x) # OK /\ removeAdmin_err(u, x) # OK
            /\ \A m \in Strings : updateMetadata_err(u, m) # OK
            /\ \A n \in NameChoices, m \in Strings : createPassportType_err(u, n, m) # OK
            /\ \A t \in AnyTokenId, l \in AccountLists :
                  addToPassportAllowlist_err(u, t, l) # OK
            /\ \A t \in AnyTokenId, m \in Strings : updatePassportURI_err(u, t, m) # OK
            /\ \A to \in Receivers, t \in AnyTokenId : mintPassportTo_err(u, to, t) # OK
            /\ \A p \in Prompts, o \in OptionLists, d \in Durations :
                  createContest_err(u, p, o, d) # OK

C12_UninitializedNoEffect ==
    \/ UNCHANGED vars
    \/ assembly.initialized
    \/ /\ assembly' # assembly => assembly'.initialized
       /\ \A u \in Users :
             /\ \A x \in Users : ~addAdmin(u, x) /\ ~removeAdmin(u, x)
             /\ \A m \in UriChoices : ~updateMetadata(u, m)
             /\ \A o \in BOOLEAN : ~createPassportType(u, "Member", "ipfs://a", o)
             /\ ~addToPassportAllowlist(u, 1, <<NumUsers>>)
             /\ ~updatePassportURI(u, 1, "ipfs://b")
             /\ ~mintPassportTo(u, NumUsers, 1)
             /\ ~createContest(u, "Pick one?", <<"A", "B">>, 1, <<>>)

C12_InitializedTerminal == assembly.initialized => assembly'.initialized

\* C12: an uninitialized Assembly rejects every admin function without
\* effect, and an initialized Assembly never becomes uninitialized.
C12_InitializedGate ==
    /\ []C12_UninitializedRejects
    /\ [][C12_UninitializedNoEffect]_vars
    /\ [][C12_InitializedTerminal]_vars

\* C12 witness: the Assembly is still uninitialized (every field zero) in a
\* state other than the initial one: the Contest implementation has been
\* initialized meanwhile.
C12_Witness ==
    /\ ~assembly.initialized /\ assembly = ClonedAssembly
    /\ contests[ImplContest].initialized

\* Handles a caller may ask the factory about: the clones it can deploy,
\* both implementations, the factory itself, an Assembly deployed by
\* somebody else, plain accounts, the zero address.
AnyHandle ==
    CloneAddrs \cup Users \cup
        {ZeroAddr, FactoryAddr, AssemblyAddr, PassportsAddr, ContestImplAddr, AssemblyImplAddr}

Listed(h) == \E k \in 1..Len(getAllAssemblies) : getAllAssemblies[k] = h

\* C13 (SpecFactory): (1) verifyAssembly(h) is true iff h appears in
\* getAllAssemblies().  (2) The k-th listed handle is the k-th clone the
\* factory itself deployed, and that Assembly is initialized; so the
\* implementation, an Assembly deployed by somebody else and every address
\* the factory has not deployed yet are neither listed nor verified.
\* (3) The list changes only in a successful createAssembly step, which
\* appends the handle of the clone deployed in that step.
C13_VerifiedIffListed ==
    \A h \in AnyHandle : verifyAssembly(h) <=> Listed(h)

C13_ListedWereCreated ==
    /\ factory.nonce = Len(getAllAssemblies) + 3
    /\ \A k \in 1..Len(getAllAssemblies) :
          /\ getAllAssemblies[k] = CreateAddr(k + 2)
          /\ getAllAssemblies[k] \in factory.deployed
          /\ factory.units[getAllAssemblies[k]].initialized
    /\ \A h \in AnyHandle :
          (h \notin CloneAddrs \/ h \notin factory.deployed) =>
              ~Listed(h) /\ ~verifyAssembly(h)

C13_ListGrowsByCreate ==
    \/ factory'.assemblies = factory.assemblies /\ factory'.isAssembly = factory.isAssembly
    \/ /\ \E u \in Users, m \in Strings :
             createAssembly_err(u, m) = OK /\ createAssembly(u, m)
       /\ factory'.assemblies = Append(factory.assemblies, CreateAddr(factory.nonce))
       /\ CreateAddr(factory.nonce) \notin factory.deployed

\* C13: verifyAssembly is membership in the list, and the list holds
\* exactly the Assemblies that createAssembly cloned and initialized.
C13_OnlyOwnInstances ==
    /\ []C13_VerifiedIffListed
    /\ []C13_ListedWereCreated
    /\ [][C13_ListGrowsByCreate]_vars

\* C13 witness: two listed Assemblies, while an initialized Assembly that
\* somebody else deployed and the implementation are not verified.
C13_Witness ==
    /\ Len(getAllAssemblies) >= 2
    /\ verifyAssembly(getAllAssemblies[2])
    /\ assembly.initialized /\ ~verifyAssembly(AssemblyAddr)
    /\ ~verifyAssembly(AssemblyImplAddr)

\* The creator of a listed Assembly: the first admin __init recorded.
CreatorOf(h) == factory.units[h].adminList[1]

CreatedBy(c) ==
    LET ByC(h) == CreatorOf(h) = c
    IN SelectSeq(getAllAssemblies, ByC)

NonEmptyURIs == Strings \ {""}

\* C14 (SpecFactory): (1) createAssembly("") fails EmptyMetadataURI for
\* every caller, and every call with a non-empty pointer succeeds; (2) a
\* createAssembly("") step changes nothing; (3) a createAssembly(p) step
\* with non-empty p by u deploys a new Assembly that is initialized with
\* metadata pointer p and whose only admin is u, appends its handle at the
\* end of the list (index = previous total) and at the end of u's list, and
\* leaves the rest of the list and the other creators' lists as they were;
\* (4) in every reachable state each creator's list is the subsequence of
\* the global list that this creator created, in creation order.
C14_Decision ==
    \A u \in Users :
        /\ createAssembly_err(u, "") = "EmptyMetadataURI"
        /\ \A m \in NonEmptyURIs : createAssembly_err(u, m) = OK

C14_EmptyNoEffect ==
    \/ UNCHANGED vars
    \/ \A u \in Users : ~createAssembly(u, "")

C14_CreateEffect ==
    \/ UNCHANGED factory
    \/ \A u \in Users, m \in NonEmptyURIs :
          createAssembly(u, m) =>
              LET total == Len(factory.assemblies)
                  h == factory'.assemblies[total + 1]
              IN /\ Len(factory'.assemblies) = total + 1
                 /\ SubSeq(factory'.assemblies, 1, total) = factory.assemblies
                 /\ h \notin factory.deployed /\ h \in factory'.deployed
                 /\ factory'.units[h].initialized
                 /\ factory'.units[h].metadataURI = m
                 /\ factory'.units[h].roles[ADMIN_ROLE] = {u}
                 /\ factory'.units[h].adminList = <<u>>
                 /\ getAssembliesByCreator(u)' = Append(getAssembliesByCreator(u), h)
                 /\ \A v \in Users \ {u} :
                       getAssembliesByCreator(v)' = getAssembliesByCreator(v)
                 /\ \A g \in factory.deployed : factory'.units[g] = factory.units[g]

C14_PerCreatorSubsequence ==
    \A c \in Users : getAssembliesByCreator(c) = CreatedBy(c)

\* C14: createAssembly rejects the empty pointer without effect, and on
\* success appends one new initialized Assembly to the global list and to
\* the caller's list, which stays the caller's subsequence of the global list.
C14_CreateAssembly ==
    /\ []C14_Decision
    /\ []C14_PerCreatorSubsequence
    /\ [][C14_EmptyNoEffect]_vars
    /\ [][C14_CreateEffect]_vars

\* C14 witness: three Assemblies created by two callers in the order
\* 1, 2, 1 with different metadata pointers.
C14_Witness ==
    /\ Len(getAllAssemblies) = 3
    /\ CreatorOf(getAllAssemblies[1]) = 1
    /\ CreatorOf(getAllAssemblies[2]) = 2
    /\ CreatorOf(getAllAssemblies[3]) = 1
    /\ getAssembliesByCreator(1) = <<getAllAssemblies[1], getAllAssemblies[3]>>
    /\ getAssembliesByCreator(2) = <<getAllAssemblies[2]>>
    /\ factory.units[getAllAssemblies[1]].metadataURI # factory.units[getAllAssemblies[3]].metadataURI

Min(a, b) == IF a < b THEN a ELSE b

\* getAllAssemblies()[offset : min(offset + limit, total)], 0-based and
\* end-exclusive.
SliceOfAll(offset, limit) ==
    SubSeq(getAllAssemblies, offset + 1, Min(offset + limit, Len(getAllAssemblies)))

\* C15 (SpecFactory): for every offset and limit of the unsigned range,
\* getAssembliesPaginated(offset, limit) returns the slice
\* getAllAssemblies()[offset : min(offset+limit, total)] and total, and
\* ([], total) whenever offset >= total.  The code does not satisfy this
\* for offset < total with offset + limit beyond the range, where the call
\* reverts.
C15_PaginatedIsSlice ==
    \A offset \in Uints, limit \in Uints :
        /\ getAssembliesPaginated_err(offset, limit) = OK
        /\ getAssembliesPaginated(offset, limit) =
              [paginatedAssemblies |-> SliceOfAll(offset, limit), total |-> getAssemblyCount]
        /\ offset >= getAssemblyCount =>
              getAssembliesPaginated(offset, limit) =
                  [paginatedAssemblies |-> <<>>, total |-> getAssemblyCount]

\* What the code does satisfy: whenever the call returns, it returns that
\* slice, and it returns whenever offset >= total or offset + limit is in
\* range.
C15_SliceWhenReturns ==
    \A offset \in Uints, limit \in Uints :
        /\ (offset >= getAssemblyCount \/ offset + limit <= UintMax) =>
              getAssembliesPaginated_err(offset, limit) = OK
        /\ getAssembliesPaginated_err(offset, limit) = OK =>
              getAssembliesPaginated(offset, limit) =
                  [paginatedAssemblies |-> SliceOfAll(offset, limit), total |-> getAssemblyCount]

\* C16 (SpecFactory): getAssembliesPaginated never errors: for every
\* offset and limit of the unsigned range, including the largest limit
\* with 0 < offset < total, the call returns.  The code does not satisfy
\* this: offset + limit is computed in checked arithmetic.
C16_PaginatedNeverErrors ==
    \A offset \in Uints, limit \in Uints :
        getAssembliesPaginated_err(offset, limit) = OK

\* C17 (SpecFactory): for every count of the unsigned range,
\* getRecentAssemblies(count) returns without failing min(count, total)
\* handles, the i-th (from 0) being getAllAssemblies()[total-1-i]; with
\* three Assemblies A, B, C, count = 3 gives [C,B,A] and count = 2 gives
\* [C,B]; count = 0 or an empty factory gives [].
C17_RecentNewestFirst ==
    \A count \in Uints :
        LET total == getAssemblyCount
            r == getRecentAssemblies(count)
        IN /\ getRecentAssemblies_err(count) = OK
           /\ Len(r) = Min(count, total)
           /\ \A i \in 0..(Len(r) - 1) : r[i + 1] = getAssembly(total - 1 - i)
           /\ (count = 0 \/ total = 0) => r = <<>>
           /\ (total = 3 /\ count = 3) =>
                 r = <<getAssembly(2), getAssembly(1), getAssembly(0)>>
           /\ (total = 3 /\ count = 2) => r = <<getAssembly(2), getAssembly(1)>>

\* C17 witness: three Assemblies; the two most recent are returned newest
\* first, and a count beyond the total is clamped.
C17_Witness ==
    /\ getAssemblyCount = 3
    /\ getRecentAssemblies(2) = <<getAllAssemblies[3], getAllAssemblies[2]>>
    /\ Len(getRecentAssemblies(UintMax)) = 3

\* Type ids a caller may name: 0, the ids that can exist, and one beyond.
AnyTypeId == 0..(MaxTypes + 2)

\* C18 (SpecTypes): (1) the existing type ids are exactly
\* 1..nextTokenId()-1; (2) createPassportType fails EmptyName / EmptyURI /
\* unauthorized as specified, and a failing call changes nothing (consumes
\* no id); (3) a successful call returns the current nextTokenId(), marks
\* exactly that id existing and advances nextTokenId() by one, and
\* nextTokenId() changes in no other step, so the k-th successful call
\* returns k; (4) exists, once set, is never cleared.
C18_IdsAreContiguous ==
    passports.exists =>
        /\ nextTokenId >= 1
        /\ \A t \in AnyTypeId : passportTypeOf(t).exists <=> (1 <= t /\ t < nextTokenId)

C18_CreateDecision ==
    passports.exists =>
        \A n \in NameChoices, m \in Strings :
            /\ \A u \in AnyAddress \ {passports.owner} :
                  Passports_createPassportType_err(u, n, m) = "OwnableUnauthorizedAccount"
            /\ n = "" => Passports_createPassportType_err(passports.owner, n, m) = "EmptyName"
            /\ (n # "" /\ m = "") =>
                  Passports_createPassportType_err(passports.owner, n, m) = "EmptyURI"
            /\ (n # "" /\ m # "") =>
                  Passports_createPassportType_err(passports.owner, n, m) = OK

C18_CreateStep ==
    \/ UNCHANGED passports
    \/ ~passports.exists
    \/ /\ \A u \in TypeCallers, n \in NameChoices, m \in {"", "ipfs://a"}, o \in BOOLEAN :
             Passports_createPassportType(u, n, m, o) =>
                 /\ Passports_createPassportType_err(u, n, m) = OK
                 /\ nextTokenId' = nextTokenId + 1
                 /\ ~passportTypeOf(Passports_createPassportType_ret).exists
                 /\ Passports_createPassportType_ret \in TokenIds
                 /\ passports'.passportTypes[Passports_createPassportType_ret].exists
                 /\ \A t \in AnyTypeId \ {Passports_createPassportType_ret} :
                       passportTypeOf(t)' = passportTypeOf(t)
       /\ nextTokenId' # nextTokenId =>
             \/ \E u \in TypeCallers, o \in BOOLEAN :
                   Passports_createPassportType(u, "Member", "ipfs://a", o)
             \/ \E u \in Users : createPassportType(u, "Member", "ipfs://a", TRUE)
       /\ \A t \in AnyTypeId : passportTypeOf(t).exists => passportTypeOf(t)'.exists

\* C18: type ids are handed out 1, 2, 3, ... by successful creations only,
\* and an existing type never stops existing.
C18_SequentialIds ==
    /\ []C18_IdsAreContiguous
    /\ []C18_CreateDecision
    /\ [][C18_CreateStep]_vars

\* C18 witness: two types were created (ids 1 and 2), nextTokenId() is 3,
\* and type 1 has had its URI updated since.
C18_Witness ==
    /\ passports.exists /\ nextTokenId = 3
    /\ passportTypeOf(1).exists /\ passportTypeOf(2).exists
    /\ passportTypeOf(1).uri = "ipfs://b"
    /\ passportTypeOf(1).isOpen # passportTypeOf(2).isOpen

ListedIn(l) == {l[i] : i \in 1..Len(l)}

\* C19 (SpecTypes): (1) an allowlist entry, once true, stays true after
\* every step; (2) addToAllowlist by the owner fails
\* PassportTypeDoesNotExist for an unknown type and EmptyAddressArray for
\* an empty list, and succeeds otherwise; (3) a failing call changes
\* nothing; (4) a successful call makes every listed address eligible and
\* leaves every other entry, and the rest of the contract, unchanged;
\* (5) a call whose addresses are all eligible already changes nothing, and
\* listing an address twice has the effect of listing it once.
C19_Monotone ==
    \A t \in TokenIds : passports.allowlist[t] \subseteq passports'.allowlist[t]

C19_AddDecision ==
    passports.exists =>
        \A t \in AnyTypeId, l \in AllowLists :
            /\ ~passportTypeOf(t).exists =>
                  addToAllowlist_err(passports.owner, t, l) = "PassportTypeDoesNotExist"
            /\ (passportTypeOf(t).exists /\ l = <<>>) =>
                  addToAllowlist_err(passports.owner, t, l) = "EmptyAddressArray"
            /\ (passportTypeOf(t).exists /\ l # <<>>) =>
                  addToAllowlist_err(passports.owner, t, l) = OK
            /\ (passportTypeOf(t).exists /\ l # <<>>) =>
                  addToAllowlist_state(t, l) = addToAllowlist_state(t, l \o l)

C19_AddStep ==
    \/ UNCHANGED vars
    \/ \A u \in TypeCallers, t \in {1, MaxTypes + 1}, l \in AllowLists :
          addToAllowlist(u, t, l) =>
              /\ passportTypeOf(t).exists /\ l # <<>> /\ u = passports.owner
              /\ ~(ListedIn(l) \subseteq passports.allowlist[t])
              /\ passports'.allowlist[t] = passports.allowlist[t] \cup ListedIn(l)
              /\ \A t2 \in TokenIds \ {t} : passports'.allowlist[t2] = passports.allowlist[t2]
              /\ passports'.passportTypes = passports.passportTypes
              /\ passports'.balances = passports.balances
              /\ passports'.nextTokenId = passports.nextTokenId

\* C19: allowlists only grow, by exactly the addresses listed in successful
\* addToAllowlist calls; repeated and failing calls change nothing.
C19_AllowlistGrows ==
    /\ []C19_AddDecision
    /\ [][C19_Monotone]_vars
    /\ [][C19_AddStep]_vars

\* C19 witness: a non-open type whose allowlist holds two addresses, one of
\* which has minted since, next to a second type with an empty allowlist.
C19_Witness ==
    /\ passportTypeOf(1).exists /\ ~passportTypeOf(1).isOpen
    /\ passports.allowlist[1] = {1, 2}
    /\ balanceOf(1, 1) = 1
    /\ passportTypeOf(2).exists /\ passports.allowlist[2] = {}

\* The outcome the existence and holding checks alone give.
ExistenceAndHolding(a, t) ==
    IF ~passportTypeOf(t).exists THEN "PassportTypeDoesNotExist"
    ELSE IF balanceOf(a, t) > 0 THEN "AlreadyHoldsPassport"
    ELSE OK

C20_AdminMintDecision ==
    (assembly.initialized /\ passports.exists) =>
        \A u \in Users, a \in Receivers, t \in AnyTokenId :
            adminOnly_err(u) = OK =>
                /\ a # ZeroAddr =>
                      mintPassportTo_err(u, a, t) = ExistenceAndHolding(a, t)
                /\ a = ZeroAddr =>
                      mintPassportTo_err(u, a, t) =
                          IF ExistenceAndHolding(a, t) = OK THEN "ERC1155InvalidReceiver"
                          ELSE ExistenceAndHolding(a, t)

C20_AdminMintEffect ==
    \/ UNCHANGED vars
    \/ \A a \in Receivers, t \in TokenIds :
          mintPassportTo(1, a, t) =>
              /\ mintPassportTo_err(1, a, t) = OK
              /\ a # ZeroAddr /\ passportTypeOf(t).exists
              /\ balanceOf(a, t) = 0 /\ balanceOf(a, t)' = 1
              /\ \A k \in DOMAIN passports.balances :
                    k # <<a, t>> => passports'.balances[k] = passports.balances[k]
              /\ passports'.passportTypes = passports.passportTypes
              /\ passports'.allowlist = passports.allowlist
              /\ passports'.nextTokenId = passports.nextTokenId

DirectCallers == Users \cup {ZeroAddr, AssemblyAddr, PassportsAddr, ContestImplAddr, FactoryAddr}

\* C21 (SpecIssuer): (1) the owner of the passport contract is the Assembly
\* that deployed it, in every state; (2) createPassportType, addToAllowlist,
\* updatePassportURI and mintTo called by any address other than that
\* Assembly fail OwnableUnauthorizedAccount, whatever the arguments, and so
\* do transferOwnership and renounceOwnership; (3) a step that is such a
\* direct call by an account changes nothing.
C21_OwnerIsAssembly ==
    passports.exists => passports.owner = AssemblyAddr

C21_OthersRejected ==
    passports.exists =>
        \A s \in DirectCallers \ {AssemblyAddr} :
            /\ \A n \in {"", "Member"}, m \in {"", "ipfs://a"} :
                  Passports_createPassportType_err(s, n, m) = "OwnableUnauthorizedAccount"
            /\ \A t \in AnyTokenId, l \in AccountLists :
                  addToAllowlist_err(s, t, l) = "OwnableUnauthorizedAccount"
            /\ \A t \in AnyTokenId, m \in {"", "ipfs://a"} :
                  Passports_updatePassportURI_err(s, t, m) = "OwnableUnauthorizedAccount"
            /\ \A t \in AnyTokenId, a \in Receivers :
                  mintTo_err(s, a, t) = "OwnableUnauthorizedAccount"
            /\ \A a \in Receivers : transferOwnership_err(s, a) = "OwnableUnauthorizedAccount"
            /\ renounceOwnership_err(s) = "OwnableUnauthorizedAccount"

C21_DirectNoEffect ==
    \/ UNCHANGED vars
    \/ \A u \in Users :
          /\ \A o \in BOOLEAN : ~Passports_createPassportType(u, "Member", "ipfs://a", o)
          /\ ~addToAllowlist(u, 1, <<u>>)
          /\ ~Passports_updatePassportURI(u, 1, "ipfs://c")
          /\ \A a \in Users : ~mintTo(u, a, 1)
          /\ ~transferOwnership(u, u)
          /\ ~renounceOwnership(u)

\* C21: (4) a step that changes a passport type or an allowlist is a
\* createPassportType, addToPassportAllowlist or updatePassportURI of the
\* Assembly called by one of its admins; (5) a step that changes a balance
\* is a mintPassportTo of the Assembly called by one of its admins, or a
\* self-service mint by an eligible caller; (6) the owner never changes.
C21_OnlyThroughUnit ==
    /\ passports.exists =>
          /\ passports'.exists /\ passports'.owner = passports.owner
          /\ (passports'.passportTypes # passports.passportTypes
              \/ passports'.allowlist # passports.allowlist) =>
                \E u \in Users :
                    /\ adminOnly_err(u) = OK
                    /\ \/ \E o \in BOOLEAN : createPassportType(u, "Member", "ipfs://a", o)
                       \/ \E a \in Users : addToPassportAllowlist(u, 1, <<a>>)
                       \/ updatePassportURI(u, 1, "ipfs://b")
          /\ passports'.balances # passports.balances =>
                \E u \in Users :
                    \/ adminOnly_err(u) = OK /\ \E a \in Users : mintPassportTo(u, a, 1)
                    \/ /\ passportTypeOf(1).isOpen \/ u \in passports.allowlist[1]
                       /\ mint(u, 1)

\* C21: only the owning Assembly passes the owner check of the passport
\* contract, so types, allowlist entries and administrative mints arise
\* only from the Assembly's admin operations, and the owner never changes.
C21_OwnerOnly ==
    /\ []C21_OwnerIsAssembly
    /\ []C21_OthersRejected
    /\ [][C21_DirectNoEffect]_vars
    /\ [][C21_OnlyThroughUnit]_vars

\* C21 witness: a type, an allowlist entry and an administrative mint exist
\* (all made through the Assembly), and an admin of the Assembly other than
\* the creator is refused when calling the passport contract directly.
C21_Witness ==
    /\ passportTypeOf(1).exists /\ ~passportTypeOf(1).isOpen
    /\ passportTypeOf(1).uri = "ipfs://b"
    /\ passports.allowlist[1] = {NumUsers}
    /\ balanceOf(1, 1) = 1
    /\ adminOnly_err(NumUsers) = OK /\ NumUsers # 1
    /\ mintTo_err(NumUsers, NumUsers, 1) = "OwnableUnauthorizedAccount"
    /\ Passports_createPassportType_err(NumUsers, "Member", "ipfs://a") = "OwnableUnauthorizedAccount"

\* C22 as stated (SpecContest): vote on a Contest that exists and has not
\* been initialized fails NotInitialized, for every caller, option index
\* and time.
C22_UninitializedVoteError ==
    \A c \in ContestIds :
        (contests[c].exists /\ ~contests[c].initialized) =>
            \A v \in Voters, i \in AnyOption :
                vote_err(contests[c], v, i) = "NotInitialized"

\* What the code does instead: votingEnd of an uninitialized Contest is 0,
\* the votingActive modifier runs before the body, and the call fails
\* VotingEnded at every time.
C22_UninitializedVoteEnded ==
    \A c \in ContestIds :
        (contests[c].exists /\ ~contests[c].initialized) =>
            \A v \in Voters, i \in AnyOption :
                vote_err(contests[c], v, i) = "VotingEnded"

\* The conditions Contest.__init validates.
GoodOptions(o) ==
    /\ Len(o) >= 2 /\ Len(o) <= MAX_OPTIONS
    /\ \A i \in 1..Len(o) : o[i] # ""

Uninitialized(c) == contests[c].exists /\ ~contests[c].initialized

C23_InitDecision ==
    \A c \in ContestIds :
        Uninitialized(c) =>
            \A p \in Prompts, o \in OptionLists, d \in Uints :
                LET e == Contest__init_err(contests[c], p, o, d) IN
                /\ (p = "" /\ GoodOptions(o) /\ d # 0) => e = "EmptyPrompt"
                /\ (p # "" /\ Len(o) < 2 /\ (\A i \in 1..Len(o) : o[i] # "") /\ d # 0)
                      => e = "NotEnoughOptions"
                /\ (p # "" /\ Len(o) > MAX_OPTIONS /\ (\A i \in 1..Len(o) : o[i] # "") /\ d # 0)
                      => e = "TooManyOptions"
                /\ (p # "" /\ Len(o) >= 2 /\ Len(o) <= MAX_OPTIONS
                    /\ (\E i \in 1..Len(o) : o[i] = "") /\ d # 0) => e = "EmptyOption"
                /\ (p # "" /\ GoodOptions(o) /\ d = 0) => e = "InvalidVotingPeriod"
                /\ (p # "" /\ GoodOptions(o) /\ d # 0 /\ now + d <= UintMax) => e = OK
                /\ (p # "" /\ GoodOptions(o) /\ d # 0 /\ now + d > UintMax) => e = "Panic(0x11)"
                /\ e = OK => (p # "" /\ GoodOptions(o) /\ d # 0)

\* C23 amended, the effect: a failing __init leaves the Contest (and
\* everything else) as it was, uninitialized; a successful one makes it
\* initialized with the given 2..10 non-empty options and
\* votingEnd = now + duration > now.
C23_InitStep ==
    \A p \in Prompts, o \in OptionLists, d \in Durations :
        LET c == ImplContest IN
        (Uninitialized(c) /\ Contest__init(c, ZeroAddr, ZeroAddr, p, o, d, <<>>)) =>
            IF Contest__init_err(contests[c], p, o, d) # OK
            THEN UNCHANGED vars
            ELSE /\ contests'[c].initialized
                 /\ contests'[c].options = o /\ GoodOptions(o)
                 /\ contests'[c].prompt = p /\ p # ""
                 /\ contests'[c].votingEnd = now + d
                 /\ contests'[c].votingEnd > now

C24_NestedFailurePropagates ==
    /\ \A u \in Users, m \in {"", "ipfs://a"} :
          Assembly__init_errOn(ClonedAssembly, u, m, factory.contestImplementation) # OK
              => createAssembly_err(u, m) # OK
    /\ \A u \in Users, p \in Prompts, o \in OptionLists, d \in Durations :
          Contest__init_err(DeployedContest, p, o, d) # OK
              => createContest_err(u, p, o, d) # OK
    /\ \A u \in Users, t \in AnyTokenId, a \in Receivers, l \in AccountLists :
          /\ addToAllowlist_err(AssemblyAddr, t, l) # OK
                => addToPassportAllowlist_err(u, t, l) # OK
          /\ mintTo_err(AssemblyAddr, a, t) # OK => mintPassportTo_err(u, a, t) # OK
          /\ Passports_updatePassportURI_err(AssemblyAddr, t, "") # OK
                => updatePassportURI_err(u, t, "") # OK
    /\ \A u \in Users, n \in {"", "Member"}, m \in {"", "ipfs://a"} :
          Passports_createPassportType_err(AssemblyAddr, n, m) # OK
              => createPassportType_err(u, n, m) # OK

\* C24 (SpecAtomic), effect: a step that is a failing call, on any of the
\* four contracts, leaves every variable unchanged.
C24_FailedCallNoEffect ==
    \/ UNCHANGED vars
    \/ /\ factory' # factory =>
             /\ \A m \in {"", "ipfs://a"} : createAssembly_err(1, m) # OK => ~createAssembly(1, m)
             /\ \A h \in CloneAddrs :
                   (h \in factory.deployed
                    /\ Assembly__init_errOn(factory.units[h], 1, "ipfs://b", ContestImplAddr) # OK)
                       => ~Unit__init(h, 1, "ipfs://b", ContestImplAddr)
       /\ assembly' # assembly =>
             /\ \A m \in {"", "ipfs://a"} :
                   Assembly__init_err(1, m, ContestImplAddr) # OK
                       => ~Assembly__init(1, m, ContestImplAddr)
             /\ \A u \in Users : addAdmin_err(u, NumUsers) # OK => ~addAdmin(u, NumUsers)
       /\ passports' # passports =>
             \A u \in Users :
                 /\ \A n \in {"", "Member"} :
                       createPassportType_err(u, n, "ipfs://a") # OK
                           => ~createPassportType(u, n, "ipfs://a", FALSE)
                 /\ \A t \in TokenIds, l \in {<<>>, <<NumUsers>>} :
                       addToPassportAllowlist_err(u, t, l) # OK
                           => ~addToPassportAllowlist(u, t, l)
                 /\ \A a \in {ZeroAddr, 1} :
                       mintPassportTo_err(u, a, 1) # OK => ~mintPassportTo(u, a, 1)
                 /\ mint_err(u, 1) # OK => ~mint(u, 1)
                 /\ safeTransferFrom_err(u, u, NextUser(u), 1, 1) # OK
                       => ~safeTransferFrom(u, u, NextUser(u), 1, 1)
       /\ contests' # contests =>
             /\ \A u \in Users, o \in {<<"A">>, <<"A", "B">>}, d \in {0, 1} :
                   createContest_err(u, "Pick one?", o, d) # OK
                       => ~createContest(u, "Pick one?", o, d, <<1>>)
             /\ \A c \in {ImplContest, 1} :
                   LET i == IF c = 1 THEN 0 ELSE 2 IN
                   (contests[c].exists /\ vote_err(contests[c], 1, i) # OK) => ~vote(c, 1, i)
             /\ \A c \in ContestIds :
                   (contests[c].exists
                    /\ Contest__init_err(contests[c], "Other?", <<"X", "Y">>, MaxDuration) # OK)
                       => ~Contest__init(c, ZeroAddr, ZeroAddr, "Other?", <<"X", "Y">>,
                                         MaxDuration, <<>>)

\* C24: every failing call is all-or-nothing, nested calls included.
C24_AllOrNothing ==
    /\ []C24_NestedFailurePropagates
    /\ [][C24_FailedCallNoEffect]_vars

\* C24 witness: a state with an Assembly in the factory, a passport type
\* and a holder, a contest and a cast vote, in which a call fails on each
\* contract for validation, authorization, state conflict and not-found
\* reasons, two of them inside a nested call.
C24_Witness ==
    /\ Len(factory.assemblies) >= 1 /\ createAssembly_err(1, "") = "EmptyMetadataURI"
    /\ assembly.initialized /\ NumUsers \notin assembly.roles[ADMIN_ROLE]
    /\ createPassportType_err(NumUsers, "Member", "ipfs://a") # OK
    /\ balanceOf(1, 1) = 1 /\ mintPassportTo_err(1, 1, 1) = "AlreadyHoldsPassport"
    /\ addToPassportAllowlist_err(1, MaxTypes + 1, <<NumUsers>>) = "PassportTypeDoesNotExist"
    /\ Len(assembly.contests) = 1
    /\ createContest_err(1, "Pick one?", <<"A">>, 1) = "NotEnoughOptions"
    /\ contests[1].hasVoted[1] /\ vote_err(contests[1], 1, 0) = "AlreadyVoted"

\* C26 (SpecAssembly): (1) an initialized Assembly enumerates at least one
\* admin; (2) a successful __init(creator, ...) leaves the admin list as
\* the single entry creator; (3) no later step changes the entry at index
\* 0, whichever of addAdmin, removeAdmin, grantRole, revokeRole and
\* renounceRole it is and whoever it names.
C26_AtLeastOne ==
    assembly.initialized => (getAdminCount >= 1 /\ getAdminAt_err(0) = OK)

C26_InitListsCreator ==
    \/ UNCHANGED vars
    \/ \A creator \in Users, m \in {"", "ipfs://a"}, impl \in {ZeroAddr, ContestImplAddr} :
          Assembly__init(creator, m, impl) => assembly'.adminList = <<creator>>

C26_FirstAdminFixed ==
    assembly.initialized => assembly'.adminList[1] = assembly.adminList[1]

AdminsListed == {assembly.adminList[i] : i \in 1..Len(assembly.adminList)}

\* C27 (SpecAssembly): (1) the enumerated admin list holds no address
\* twice, and _isAdmin marks exactly the enumerated addresses; (2) a
\* successful addAdmin(x) for an x already enumerated, whether or not x
\* holds the role at that moment, leaves the list as it is and leaves x
\* holding the role; (3) a successful addAdmin(x) for a new x appends x.
C27_NoDuplicates ==
    /\ \A i \in 1..Len(assembly.adminList), j \in 1..Len(assembly.adminList) :
          i # j => assembly.adminList[i] # assembly.adminList[j]
    /\ assembly.isAdminFlag = AdminsListed

C27_AddStep ==
    \/ UNCHANGED assembly
    \/ \A u \in Users, x \in Users :
          (addAdmin_err(u, x) = OK /\ addAdmin(u, x)) =>
              /\ x \in assembly'.roles[ADMIN_ROLE]
              /\ x \in AdminsListed => assembly'.adminList = assembly.adminList
              /\ x \notin AdminsListed => assembly'.adminList = Append(assembly.adminList, x)

\* C27: re-adding an enumerated admin regrants the role without changing
\* the enumeration, so the enumeration never holds an address twice.
C27_AddIsIdempotent ==
    /\ []C27_NoDuplicates
    /\ [][C27_AddStep]_vars

\* C27 witness: the second enumerated admin has been removed (it no longer
\* holds the role) and the creator may add it again.
C27_Witness ==
    /\ assembly.initialized
    /\ getAdminCount = 2
    /\ ~isAdmin(getAdminAt(1))
    /\ addAdmin_err(getAdminAt(0), getAdminAt(1)) = OK

\* What a successful createContest(p, o, d, r) step does.
CreatedContest(p, o, d, r) ==
    LET h == NextClone IN
    /\ ~contests[h].exists
    /\ contests'[h] = [DeployedContest EXCEPT
                          !.initialized = TRUE, !.prompt = p, !.options = o,
                          !.requiredPassports = r, !.votingEnd = now + d,
                          !.assemblyAddress = AssemblyAddr,
                          !.passports = assembly.passports]
    /\ assembly.passports = PassportsAddr
    /\ \A c \in ContestIds \ {h} : contests'[c] = contests[c]
    /\ assembly'.contests = Append(assembly.contests, h)
    /\ assembly' = [assembly EXCEPT !.contests = assembly'.contests]
    /\ getInfo'.contestCount = getInfo.contestCount + 1
    /\ UNCHANGED <<now, passports, factory>>

\* C28 (SpecVotes): (1) for an admin of an initialized Assembly the
\* outcome of createContest is the outcome of Contest.__init on a fresh
\* clone with the same prompt, options and duration; (2) a createContest
\* step that changes anything is a successful one: it creates a Contest
\* that is initialized with exactly the given prompt, options and required
\* types, votingEnd = now + d, no votes, this Assembly and this Assembly's
\* passport contract, appends its handle (the value returned) as the last
\* element of the contest list, and changes nothing else; so a failing
\* call leaves the list and the contest count of getInfo unchanged.
C28_CreateDecision ==
    assembly.initialized =>
        \A u \in Users, p \in Prompts, o \in OptionLists, d \in Durations :
            isAdmin(u) =>
                createContest_err(u, p, o, d) = Contest__init_err(DeployedContest, p, o, d)

C28_CreateStep ==
    \/ UNCHANGED <<assembly, contests>>
    \/ /\ assembly.contests = <<>> =>
             \A u \in Users, p \in Prompts, o \in OptionLists, d \in Durations,
                r \in {<<>>, <<1>>} :
                 createContest(u, p, o, d, r) =>
                     /\ isAdmin(u) /\ Contest__init_err(DeployedContest, p, o, d) = OK
                     /\ CreatedContest(p, o, d, r)
       /\ assembly.contests # <<>> =>
             \A u \in Users :
                 createContest(u, "Pick one?", <<"A", "B", "C">>, 1, <<>>) =>
                     /\ isAdmin(u)
                     /\ CreatedContest("Pick one?", <<"A", "B", "C">>, 1, <<>>)

\* C28: createContest creates, initializes and appends one Contest, or
\* fails as a whole.
C28_CreateContest ==
    /\ []C28_CreateDecision
    /\ [][C28_CreateStep]_vars

\* C28 witness: two contests created at different times, the first gated
\* by passport type 1, enumerated in creation order; a further call with a
\* single option would be rejected by the Contest's own validation.
C28_Witness ==
    /\ assembly.contests = <<1, 2>>
    /\ contests[1].requiredPassports = <<1>> /\ contests[1].passports = PassportsAddr
    /\ contests[1].votingEnd < contests[2].votingEnd
    /\ Len(contests[2].options) = 3
    /\ createContest_err(1, "Pick one?", <<"A">>, 1) = "NotEnoughOptions"

\* C29 (SpecAtomic): (1) getAssembly(i) fails AssemblyNotFound exactly when
\* i >= getAssemblyCount(), and getContest(i) fails ContestNotFound exactly
\* when i >= getContestCount(); (2) every step leaves the factory's
\* assembly list and the Assembly's contest list as a prefix of their new
\* values: the lengths do not decrease and a populated index keeps its
\* handle.
C29_GetDecision ==
    /\ \A i \in 0..(MaxAssemblies + 1) :
          /\ getAssembly_err(i) \in {OK, "AssemblyNotFound"}
          /\ getAssembly_err(i) = "AssemblyNotFound" <=> i >= getAssemblyCount
          /\ getAssembly_err(i) = OK => getAssembly(i) \in CloneAddrs
    /\ \A i \in 0..(MaxContests + 1) :
          /\ getContest_err(i) \in {OK, "ContestNotFound"}
          /\ getContest_err(i) = "ContestNotFound" <=> i >= getContestCount

C29_ListsGrow ==
    /\ Len(factory'.assemblies) >= Len(factory.assemblies)
    /\ \A i \in 1..Len(factory.assemblies) : factory'.assemblies[i] = factory.assemblies[i]
    /\ Len(assembly'.contests) >= Len(assembly.contests)
    /\ \A i \in 1..Len(assembly.contests) : assembly'.contests[i] = assembly.contests[i]

\* C29: the assembly list of the factory and the contest list of an
\* Assembly are append-only, and getAssembly fails exactly out of range.
C29_AppendOnly ==
    /\ []C29_GetDecision
    /\ [][C29_ListsGrow]_vars

\* C29 witness: two assemblies and two contests are enumerated, in the
\* order they were created, and the index after the last is not found.
C29_Witness ==
    /\ getAssemblyCount = 2 /\ getAssembly(0) = CreateAddr(3) /\ getAssembly(1) = CreateAddr(4)
    /\ getAssembly_err(2) = "AssemblyNotFound"
    /\ getAllContests = <<1, 2>>
    /\ getContest_err(1) = OK /\ getContest_err(2) = "ContestNotFound"

\* The terms of a Contest: what __init stores.
TermsOf(c) ==
    <<c.initialized, c.votingEnd, c.prompt, c.options, c.requiredPassports,
      c.assemblyAddress, c.passports>>

\* C30 (SpecAtomic): (1) no step changes the terms (votingEnd, prompt,
\* options, required passport types, Assembly and passport contract) of a
\* Contest that is initialized, whichever contract the step calls and
\* whoever calls it; (2) isActive of an initialized Contest is now <
\* votingEnd; (3) so an initialized Contest leaves the active status only
\* in a step that advances the clock, and never returns to it.
C30_TermsFixed ==
    \A c \in ContestIds :
        contests[c].initialized => TermsOf(contests'[c]) = TermsOf(contests[c])

C30_StatusByClock ==
    \A c \in ContestIds :
        contests[c].initialized => (isActive(contests[c]) <=> now < contests[c].votingEnd)

C30_EndsByTimeOnly ==
    \A c \in ContestIds :
        contests[c].initialized =>
            /\ (isActive(contests[c]) /\ ~isActive(contests[c])') =>
                  (now' > now /\ now' >= contests[c].votingEnd)
            /\ ~isActive(contests[c]) => ~isActive(contests[c])'

\* C30: nothing alters the terms of an initialized Contest or ends it
\* early; it ends when the clock reaches votingEnd.
C30_NoEarlyEnd ==
    /\ []C30_StatusByClock
    /\ [][C30_TermsFixed]_vars
    /\ [][C30_EndsByTimeOnly]_vars

\* C30 witness: a contest created by the Assembly has a vote and has ended
\* by the clock alone, with the terms it was created with; a new __init on
\* it is refused.
C30_Witness ==
    /\ assembly.contests # <<>>
    /\ contests[1].initialized /\ contests[1].totalVotes = 1
    /\ contests[1].prompt = "Pick one?" /\ contests[1].requiredPassports = <<1>>
    /\ now >= contests[1].votingEnd /\ ~isActive(contests[1])
    /\ Contest__init_err(contests[1], "Other?", <<"X", "Y">>, MaxDuration) = "AlreadyInitialized"

\* ============================================================ re-entrancy
\* An account that is a contract: it runs code when a guarded function
\* calls out to it, and that code may call the unit back before it returns.
Hook == NumUsers

\* One executing call that is waiting for the hook to return: the function,
\* its arguments, and the storage to restore when the call reverts.
Frame(fn, cid, sender, arg) ==
    [fn |-> fn, cid |-> cid, sender |-> sender, arg |-> arg,
     saved |-> [assembly |-> assembly, passports |-> passports, contests |-> contests]]

\* mint, lines 298-309, up to the acceptance callback made by _mint: the
\* checks have passed, the guard is set and the balance is written.
mint_enter(sender, tokenId) ==
    /\ calls = <<>>
    /\ passports.exists
    /\ mint_err(sender, tokenId) = OK
    /\ passports' = [ERC1155_mint_state(sender, tokenId) EXCEPT !.entered = TRUE]
    /\ calls' = <<Frame("mint", 0, sender, tokenId)>>
    /\ UNCHANGED <<now, factory, assembly, contests>>

\* Assembly.mintPassportTo -> AssemblyPassports.mintTo, lines 319-327, up
\* to the acceptance callback made to the receiver.
mintPassportTo_enter(sender, to, tokenId) ==
    /\ calls = <<>>
    /\ mintPassportTo_err(sender, to, tokenId) = OK
    /\ passports' = [ERC1155_mint_state(to, tokenId) EXCEPT !.entered = TRUE]
    /\ calls' = <<Frame("mintTo", 0, to, tokenId)>>
    /\ UNCHANGED <<now, factory, assembly, contests>>

\* vote, lines 117-124, up to the holdsAnyPassport call on the contest's
\* passport contract: the guard is set, the checks of lines 118-121 have
\* passed, and hasVoted is not yet written (line 130).
vote_enter(cid, sender, optionIndex) ==
    /\ calls = <<>>
    /\ contests[cid].exists
    /\ contests[cid].passports = Hook
    /\ Len(contests[cid].requiredPassports) > 0
    /\ vote_err([contests[cid] EXCEPT !.requiredPassports = <<>>], sender, optionIndex) = OK
    /\ contests' = [contests EXCEPT ![cid].entered = TRUE]
    /\ calls' = <<Frame("vote", cid, sender, optionIndex)>>
    /\ UNCHANGED <<now, factory, assembly, passports>>

\* createContest, lines 232-237, up to the __init call on the clone of the
\* contest implementation: the modifiers have passed and the guard is set;
\* the clone is not yet pushed (line 240).
createContest_enter(sender) ==
    /\ calls = <<>>
    /\ Len(assembly.contests) < MaxContests
    /\ assembly.contestImplementation = Hook
    /\ adminOnly_err(sender) = OK
    /\ ~assembly.entered
    /\ assembly' = [assembly EXCEPT !.entered = TRUE]
    /\ calls' = <<Frame("createContest", NextClone, sender, 0)>>
    /\ UNCHANGED <<now, factory, passports, contests>>

\* The hook, while it runs, calls a guarded function of the unit whose call
\* it is running in.
Reenter ==
    /\ calls # <<>>
    /\ \/ /\ calls[1].fn \in {"mint", "mintTo"}
          /\ \/ \E t \in TokenIds : mint(Hook, t)
             \/ \E t \in TokenIds : mintPassportTo(Hook, Hook, t)
             \/ \E t \in TokenIds : mintTo(Hook, Hook, t)
       \/ /\ calls[1].fn = "vote"
          /\ \E a \in {Hook, calls[1].sender}, i \in {0, 1} : vote(calls[1].cid, a, i)
       \/ /\ calls[1].fn = "createContest"
          /\ \E r \in {<<>>, <<1>>} : createContest(Hook, "Pick one?", <<"A", "B">>, 1, r)

\* The hook returns. accepted: the callback returned normally (and, for
\* vote, holdsAnyPassport returned true), so the call runs to its end and
\* the guard is cleared. Otherwise the whole call reverts.
Return(accepted) ==
    /\ calls # <<>>
    /\ calls' = <<>>
    /\ IF ~accepted
       THEN /\ assembly' = calls[1].saved.assembly
            /\ passports' = calls[1].saved.passports
            /\ contests' = calls[1].saved.contests
       ELSE /\ passports' = [passports EXCEPT !.entered = FALSE]
            /\ contests' =
                  IF calls[1].fn = "vote"
                  THEN [contests EXCEPT ![calls[1].cid] =
                           [vote_state(@, calls[1].sender, calls[1].arg) EXCEPT !.entered = FALSE]]
                  ELSE contests
            /\ assembly' =
                  IF calls[1].fn = "createContest"
                  THEN [assembly EXCEPT !.contests = Append(@, calls[1].cid), !.entered = FALSE]
                  ELSE assembly
    /\ UNCHANGED <<now, factory>>

\* Guarded calls that call out to the hook, with the nested calls the hook
\* makes before it returns.
NextReentry ==
    \/ calls = <<>> /\ \E i \in {ContestImplAddr, Hook} : Assembly__init(1, "ipfs://a", i)
    \/ calls = <<>> /\ addAdmin(1, Hook)
    \/ calls = <<>> /\ \E o \in BOOLEAN :
                          Passports_createPassportType(AssemblyAddr, "Member", "ipfs://a", o)
    \/ calls = <<>> /\ \E t \in {1, 2} : addToAllowlist(AssemblyAddr, t, <<Hook>>)
    \/ calls = <<>> /\ \E r \in {<<>>, <<1>>} :
                          Contest__init(ImplContest, ZeroAddr, Hook, "Pick one?", <<"A", "B">>,
                                        MaxDuration, r)
    \/ \E t \in {1, 2} : mint_enter(Hook, t)
    \/ \E u \in {1, Hook}, t \in {1, 2} : mintPassportTo_enter(u, Hook, t)
    \/ \E a \in {1, Hook}, i \in {0, 1} : vote_enter(ImplContest, a, i)
    \/ \E u \in {1, Hook} : createContest_enter(u)
    \/ Reenter
    \/ \E accepted \in BOOLEAN : Return(accepted)

SpecReentry == Init /\ [][NextReentry]_vars

\* ---------------------------------------------------------------- C25
\* The outer call, waiting for the hook to return, is one of fns.
Executing(fns) == calls # <<>> /\ calls[1].fn \in fns

\* The guard of a contract is set exactly while one of its guarded
\* functions is executing: mint and mintTo share the passport contract's
\* guard, each contest has its own, and createContest has the Assembly's.
C25_GuardWhileExecuting ==
    /\ Len(calls) <= 1
    /\ passports.entered <=> Executing({"mint", "mintTo"})
    /\ assembly.entered <=> Executing({"createContest"})
    /\ \A c \in ContestIds :
          contests[c].entered <=> (Executing({"vote"}) /\ calls[1].cid = c)

\* While the guard is set, every invocation of a function it guards fails,
\* whoever calls and whatever the arguments: with the re-entrancy error when
\* the call reaches the guard, with the access error when an earlier
\* modifier stops it.
C25_ReentryRejected ==
    /\ passports.entered =>
          /\ \A s \in DirectCallers, t \in AnyTokenId :
                mint_err(s, t) = "ReentrancyGuardReentrantCall"
          /\ \A s \in DirectCallers, a \in Receivers, t \in AnyTokenId :
                mintTo_err(s, a, t) =
                   IF onlyOwner(s) THEN "ReentrancyGuardReentrantCall"
                   ELSE "OwnableUnauthorizedAccount"
          /\ \A u \in Users, a \in Receivers, t \in AnyTokenId :
                mintPassportTo_err(u, a, t) # OK
    /\ \A c \in ContestIds :
          contests[c].entered =>
             \A a \in Accounts, i \in VoteChoices :
                vote_err(contests[c], a, i) = "ReentrancyGuardReentrantCall"
    /\ assembly.entered =>
          \A u \in Users, o \in ValidOptionLists, d \in ValidDurations :
             createContest_err(u, "Pick one?", o, d) =
                IF adminOnly_err(u) = OK THEN "ReentrancyGuardReentrantCall"
                ELSE adminOnly_err(u)

\* A call made by the hook while the outer call is still executing changes
\* nothing: every step that leaves the outer call on the stack leaves the
\* whole state as it was.
C25_NestedCallNoEffect ==
    [][(calls # <<>> /\ calls' = calls) => UNCHANGED vars]_vars

\* So the work of a guarded function is never done twice inside one call:
\* no balance exceeds 1, and each contest's total, and each option's tally,
\* counts every address marked as having voted exactly once.
C25_NoDoubleEffect ==
    /\ \A a \in Accounts, t \in TokenIds : balanceOf(a, t) <= 1
    /\ \A c \in ContestIds :
          /\ contests[c].totalVotes =
                Cardinality({a \in Accounts : contests[c].hasVoted[a]})
          /\ \A i \in OptionIdx :
                contests[c].voteTally[i] =
                   Cardinality({a \in Accounts :
                                   contests[c].hasVoted[a] /\ contests[c].userVote[a] = i})

\* C25: a re-entrant invocation of mint or mintTo, of vote, or of
\* createContest, made while an invocation of the same contract's guarded
\* function is still executing, is rejected and changes nothing.
C25_NoReentrancy ==
    /\ []C25_GuardWhileExecuting
    /\ []C25_ReentryRejected
    /\ []C25_NoDoubleEffect
    /\ C25_NestedCallNoEffect

\* The hook is inside the acceptance callback of its own mint of type 1,
\* which it now holds; type 2 is open and it does not hold it, so only the
\* guard stops the nested mint of type 2.
C25_Witness ==
    /\ Executing({"mint"}) /\ calls[1].sender = Hook /\ calls[1].arg = 1
    /\ balanceOf(Hook, 1) = 1 /\ balanceOf(Hook, 2) = 0
    /\ passportTypeOf(2).exists /\ passportTypeOf(2).isOpen
    /\ mint_err(Hook, 2) = "ReentrancyGuardReentrantCall"

\* ---------------------------------------------------------------- C31
\* The sum of the tallies of options 0..n-1 of contest record c.
RECURSIVE TallySum(_, _)
TallySum(c, n) == IF n = 0 THEN 0 ELSE c.voteTally[n - 1] + TallySum(c, n - 1)

\* The addresses recorded as having voted in c, and those recorded for option i.
VotersOf(c) == {a \in Accounts : c.hasVoted[a]}
VotersFor(c, i) == {a \in Accounts : c.hasVoted[a] /\ c.userVote[a] = i}

\* In an initialized contest the total is the sum of the tallies (also as
\* getResults reports them) and the number of addresses that voted, each
\* tally is the number of addresses recorded for that option, and every
\* recorded option is one of the contest's options.
C31_TalliesAgree ==
    \A c \in ContestIds :
       contests[c].initialized =>
          /\ contests[c].totalVotes = TallySum(contests[c], Len(contests[c].options))
          /\ contests[c].totalVotes = Cardinality(VotersOf(contests[c]))
          /\ getResults(contests[c]).total = contests[c].totalVotes
          /\ \A i \in OptionIdx :
                contests[c].voteTally[i] = Cardinality(VotersFor(contests[c], i))
          /\ \A k \in 1..Len(contests[c].options) :
                getResults(contests[c]).votes[k] = Cardinality(VotersFor(contests[c], k - 1))
          /\ \A a \in Accounts :
                contests[c].hasVoted[a] => contests[c].userVote[a] < Len(contests[c].options)

\* A successful vote(i) by a marks a, records i, and adds exactly 1 to
\* tally[i] and to totalVotes in the same step.
C31_VoteStep ==
    [][\/ UNCHANGED contests
       \/ \A c \in ContestIds, a \in Accounts, i \in VoteChoices :
          (contests'[c] # contests[c] /\ vote_err(contests[c], a, i) = OK /\ vote(c, a, i)) =>
             /\ ~contests[c].hasVoted[a]
             /\ contests'[c].hasVoted[a]
             /\ contests'[c].userVote[a] = i
             /\ contests'[c].voteTally[i] = contests[c].voteTally[i] + 1
             /\ contests'[c].totalVotes = contests[c].totalVotes + 1]_vars

\* C31: in every reachable state of an initialized contest totalVotes, the
\* tallies and the ballots agree, and a successful vote updates them
\* together by exactly one.
C31_TallyConsistency == []C31_TalliesAgree /\ C31_VoteStep

\* Both users have voted on the contest the unit created, one for each
\* option.
C31_Witness ==
    /\ contests[1].initialized /\ Len(contests[1].options) = 2
    /\ contests[1].totalVotes = 2
    /\ contests[1].voteTally[0] = 1 /\ contests[1].voteTally[1] = 1
    /\ contests[1].hasVoted[1] /\ contests[1].userVote[1] = 1
    /\ contests[1].hasVoted[NumUsers] /\ contests[1].userVote[NumUsers] = 0

\* ---------------------------------------------------------------- C32
\* On an initialized contest getWinner fails VotingNotEnded exactly while
\* now < votingEnd; from votingEnd on it returns an option of the contest
\* with that option's tally.
C32_WinnerDecision ==
    \A c \in ContestIds :
       contests[c].initialized =>
          /\ now < contests[c].votingEnd => getWinner_err(contests[c]) = "VotingNotEnded"
          /\ now >= contests[c].votingEnd =>
                /\ getWinner_err(contests[c]) = OK
                /\ getWinner(contests[c]).winningIndex < Len(contests[c].options)
                /\ getWinner(contests[c]).winningVotes =
                      contests[c].voteTally[getWinner(contests[c]).winningIndex]

\* Whenever getWinner returns, the contest is not active and every vote is
\* rejected, whoever casts it and for whichever option.
C32_NoWinnerWhileVoting ==
    \A c \in ContestIds :
       (contests[c].initialized /\ getWinner_err(contests[c]) = OK) =>
          /\ ~isActive(contests[c])
          /\ \A a \in Accounts, i \in AnyOption : vote_err(contests[c], a, i) # OK
          /\ \A a \in Accounts : canVote_err(contests[c], a) = OK => ~canVote(contests[c], a)

\* C32: getWinner on an initialized contest fails with VotingNotEnded at
\* every time before votingEnd and returns a result at every time from
\* votingEnd on, so no winner is reported while votes can still be cast.
C32_WinnerAfterEnd == C32_WinnerDecision /\ C32_NoWinnerWhileVoting

\* The contest the unit created has ended with one vote for option 1, which
\* getWinner now reports.
C32_Witness ==
    /\ contests[1].initialized /\ now >= contests[1].votingEnd
    /\ contests[1].totalVotes = 1 /\ contests[1].voteTally[1] = 1
    /\ getWinner_err(contests[1]) = OK
    /\ getWinner(contests[1]) = [winningIndex |-> 1, winningVotes |-> 1]

\* ---------------------------------------------------------------- C33
\* block.timestamp keeps advancing: contests are created while
\* now <= MaxTime, and the clock runs on past every deadline they can have.
Horizon == MaxTime + MaxDuration

TickToHorizon ==
    /\ now < Horizon
    /\ now' = now + 1
    /\ UNCHANGED <<assembly, passports, contests, factory, calls>>

NextClock ==
    \/ TickToHorizon
    \/ Assembly__init(1, "ipfs://a", ContestImplAddr)
    \/ \E u \in Users, d \in ValidDurations :
          now <= MaxTime /\ assembly.contests = <<>>
          /\ createContest(u, "Pick one?", <<"A", "B">>, d, <<>>)
    \/ \E d \in ValidDurations :
          now <= MaxTime
          /\ Contest__init(ImplContest, ZeroAddr, ZeroAddr, "Pick one?", <<"A", "B">>, d, <<>>)
    \/ \E c \in {ImplContest, 1}, u \in Users : vote(c, u, 0)

\* Time passes whatever else happens: weak fairness on the clock.
SpecClock == Init /\ [][NextClock]_vars /\ WF_vars(TickToHorizon)

\* Ended as the views report it.
ReportedEnded(c) ==
    contests[c].initialized /\ ~isActive(contests[c]) /\ timeRemaining(contests[c]) = 0

\* Every initialized contest eventually reports Ended; no action closes it.
C33_EventuallyEnded ==
    \A c \in ContestIds : contests[c].initialized ~> ReportedEnded(c)

\* Once Ended, a contest is never Active again.
C33_EndedStays ==
    [][\A c \in ContestIds : ReportedEnded(c) => ReportedEnded(c)']_vars

\* While Active, timeRemaining is votingEnd - now and positive.
C33_RemainingWhileActive ==
    \A c \in ContestIds :
       isActive(contests[c]) =>
          /\ timeRemaining(contests[c]) = contests[c].votingEnd - now
          /\ timeRemaining(contests[c]) > 0

\* C33: with the clock advancing without bound, every initialized contest
\* eventually becomes Ended without any close operation and is never Active
\* again; while Active, timeRemaining equals votingEnd - now and is positive.
C33_EndsByClock ==
    /\ C33_EventuallyEnded
    /\ C33_EndedStays
    /\ []C33_RemainingWhileActive

\* A contest created at the last creation instant with the longest
\* duration has ended, with a vote cast while it was active.
C33_Witness ==
    /\ contests[1].initialized /\ contests[1].votingEnd = Horizon
    /\ contests[1].totalVotes > 0
    /\ ReportedEnded(1)

\* ---------------------------------------------------------------- C34
\* The addresses getAdminAt enumerates, and those that hold the admin role.
EnumeratedAdmins == {getAdminAt(i) : i \in 0..(getAdminCount - 1)}
RoleAdmins == {a \in Users : isAdmin(a)}

\* The enumeration and the role agree on an initialized unit.
AdminSetAgrees ==
    assembly.initialized =>
       /\ \A a \in Users : isAdmin(a) <=> a \in EnumeratedAdmins
       /\ getAdminCount = Cardinality(RoleAdmins)
       /\ getInfo.adminCount = Cardinality(RoleAdmins)

\* C34: on an initialized unit the enumerated admin set agrees with the
\* admin role after every addAdmin and removeAdmin call: isAdmin(a) iff
\* getAdminAt returns a for some index below getAdminCount, and
\* getAdminCount (and getInfo's adminCount) is the number of role holders.
\* Violated: removeAdmin revokes the role and leaves _adminList as it was.
C34_AdminSetAgrees ==
    [][\A u \in Users, x \in Users :
          (AdminSetAgrees /\ (addAdmin(u, x) \/ removeAdmin(u, x))) => AdminSetAgrees']_vars

\* What does hold: the enumeration has no duplicates, never shrinks, and
\* contains every address that holds the role after addAdmin / removeAdmin.
C34_EnumerationIsHistory ==
    [][\A u \in Users, x \in Users :
          (addAdmin(u, x) \/ removeAdmin(u, x)) =>
             /\ EnumeratedAdmins \subseteq EnumeratedAdmins'
             /\ (RoleAdmins \subseteq EnumeratedAdmins => RoleAdmins' \subseteq EnumeratedAdmins')
             /\ getAdminCount' = Cardinality(EnumeratedAdmins')]_vars

\* ---------------------------------------------------------------- C35
\* Some address holds the admin role of an initialized unit.
SomeAdmin == assembly.initialized => \E a \in Users : isAdmin(a)

\* C35: an initialized unit is never left without an admin: after every
\* addAdmin and removeAdmin call at least one address has isAdmin true.
\* Violated: removeAdmin has no last-admin check, so the only admin can
\* remove itself.
C35_NeverWithoutAdmin ==
    [][\A u \in Users, x \in Users :
          (SomeAdmin /\ (addAdmin(u, x) \/ removeAdmin(u, x))) => SomeAdmin']_vars

\* What does hold: only a removeAdmin (revokeRole) or a renounceRole that
\* takes the role from its last holder empties the role, and addAdmin never
\* does.
C35_AddKeepsAdmin ==
    [][\A u \in Users, x \in Users : (SomeAdmin /\ addAdmin(u, x)) => SomeAdmin']_vars

\* ==================================================== units of the factory
\* The admin functions of the Assembly at address h (a clone the factory
\* made), run on its own storage factory.units[h], its passport contract
\* factory.issuers[PassportsAddrOf(h)] and its first contest factory.votes[h].

\* onlyRole(ADMIN_ROLE) whenInitialized, on the storage of h.
Unit_adminOnly_err(h, sender) ==
    IF sender \notin factory.units[h].roles[ADMIN_ROLE]
    THEN "AccessControlUnauthorizedAccount(ADMIN_ROLE)"
    ELSE IF ~factory.units[h].initialized THEN "NotInitialized"
    ELSE OK

\* The call h makes to the passport contract whose address it stored in
\* __init: it reverts where no contract is deployed, and onlyOwner admits h
\* only when h owns the contract called.
Unit_passportsCall_err(h, sender) ==
    IF Unit_adminOnly_err(h, sender) # OK THEN Unit_adminOnly_err(h, sender)
    ELSE IF ~PassportsCallable(factory.units[h].passports) THEN "CallReverted"
    ELSE IF IssuerAt(factory.units[h].passports).owner # h THEN "OwnableUnauthorizedAccount"
    ELSE OK

\* Assembly.createPassportType (lines 178-185) on h, with a valid name and
\* URI: AssemblyPassports.createPassportType (lines 250-263) on h's issuer.
Unit_createPassportType(h, sender, isOpen) ==
    /\ h \in factory.deployed \cap CloneAddrs
    /\ IssuerAt(factory.units[h].passports).nextTokenId \in TokenIds
    /\ factory' =
          IF Unit_passportsCall_err(h, sender) = OK
          THEN [factory EXCEPT !.issuers[factory.units[h].passports] =
                   [@ EXCEPT !.nextTokenId = @ + 1,
                             !.passportTypes[IssuerAt(factory.units[h].passports).nextTokenId] =
                                 [name |-> "Member", uri |-> "ipfs://a",
                                  isOpen |-> isOpen, exists |-> TRUE]]]
          ELSE factory
    /\ UNCHANGED <<now, calls, assembly, passports, contests>>

\* Assembly.mintPassportTo (lines 213-215) on h: AssemblyPassports.mintTo
\* (lines 319-327) on h's issuer.
Unit_mintPassportTo_err(h, sender, to, tokenId) ==
    IF Unit_passportsCall_err(h, sender) # OK THEN Unit_passportsCall_err(h, sender)
    ELSE IF IssuerAt(factory.units[h].passports).entered THEN "ReentrancyGuardReentrantCall"
    ELSE IF ~IssuerAt(factory.units[h].passports).passportTypes[tokenId].exists
         THEN "PassportTypeDoesNotExist"
    ELSE IF balanceIn(IssuerAt(factory.units[h].passports), to, tokenId) > 0
         THEN "AlreadyHoldsPassport"
    ELSE ERC1155_mint_err(to)

Unit_mintPassportTo(h, sender, to, tokenId) ==
    /\ h \in factory.deployed \cap CloneAddrs
    /\ factory' =
          IF Unit_mintPassportTo_err(h, sender, to, tokenId) = OK
          THEN [factory EXCEPT
                   !.issuers[factory.units[h].passports].balances[<<to, tokenId>>] = @ + 1]
          ELSE factory
    /\ UNCHANGED <<now, calls, assembly, passports, contests>>

\* The address of the first contest clone of h.
ContestAddrOf(h) == h + 200

\* Assembly.createContest (lines 227-244) on h, for its first contest: the
\* clone is initialized with h and the passport address h stored (line 237).
Unit_createContest(h, sender, duration_, required_) ==
    /\ h \in factory.deployed \cap CloneAddrs
    /\ factory.units[h].contests = <<>>
    /\ factory' =
          IF /\ Unit_adminOnly_err(h, sender) = OK
             /\ ~factory.units[h].entered
             /\ Contest__init_err(DeployedContest, "Pick one?", <<"A", "B">>, duration_) = OK
          THEN [factory EXCEPT
                   !.votes = (h :> Contest__init_state(DeployedContest, h,
                                                       factory.units[h].passports, "Pick one?",
                                                       <<"A", "B">>, duration_, required_)) @@ @,
                   !.units[h].contests = Append(@, ContestAddrOf(h))]
          ELSE factory
    /\ UNCHANGED <<now, calls, assembly, passports, contests>>

\* Contest.vote (lines 117-136) on the first contest of h.
Unit_vote(h, sender, optionIndex) ==
    /\ h \in DOMAIN factory.votes
    /\ factory' =
          IF vote_err(factory.votes[h], sender, optionIndex) = OK
          THEN [factory EXCEPT !.votes[h] = vote_state(@, sender, optionIndex)]
          ELSE factory
    /\ UNCHANGED <<now, calls, assembly, passports, contests>>

\* Two units of one factory, each with its passport types, holders, a gated
\* or open contest and votes.
NextUnits ==
    \/ Len(factory.assemblies) < 2 /\ \E u \in Users : createAssembly(u, "ipfs://a")
    \/ \E h \in CloneAddrs, u \in Users :
          IssuerAt(PassportsAddrOf(h)).nextTokenId <= 1 /\ Unit_createPassportType(h, u, FALSE)
    \/ \E h \in CloneAddrs, u \in Users, a \in Users : Unit_mintPassportTo(h, u, a, 1)
    \/ \E h \in CloneAddrs, u \in Users, r \in {<<>>, <<1>>} :
          Unit_createContest(h, u, MaxDuration, r)
    \/ \E h \in CloneAddrs, a \in {1, 2} : Unit_vote(h, a, 0)

SpecUnits == Init /\ [][NextUnits]_vars

\* ---------------------------------------------------------------- C36
\* The units the factory has created, and what belongs to unit h: its own
\* storage, its passport contract's and its contest's.
UnitsCreated == factory.deployed \cap CloneAddrs
OwnIssuer(h) == IssuerAt(factory.units[h].passports)
VoteOf(h) == IF h \in DOMAIN factory.votes THEN factory.votes[h] ELSE EmptyContest
StateOf(h) == <<factory.units[h], IssuerAt(PassportsAddrOf(h)), VoteOf(h)>>

\* Each unit has its own passport contract, which it owns, at an address no
\* other unit uses, and its contest is bound to that contract and to it.
C36_OwnIssuer ==
    \A h \in UnitsCreated :
       /\ factory.units[h].passports = PassportsAddrOf(h)
       /\ OwnIssuer(h).exists /\ OwnIssuer(h).owner = h
       /\ \A g \in UnitsCreated \ {h} : factory.units[g].passports # factory.units[h].passports
       /\ VoteOf(h).initialized =>
             /\ VoteOf(h).passports = factory.units[h].passports
             /\ VoteOf(h).assemblyAddress = h

\* Whether vote and canVote succeed on a gated contest of h is decided by
\* the contest and the balances in h's own passport contract alone.
C36_EligibilityFromOwnIssuer ==
    \A h \in UnitsCreated, a \in Users :
       (VoteOf(h).initialized /\ isGated(VoteOf(h))) =>
          /\ canVote(VoteOf(h), a) <=>
                /\ isActive(VoteOf(h)) /\ ~VoteOf(h).hasVoted[a]
                /\ holdsAnyPassportIn(OwnIssuer(h), a, VoteOf(h).requiredPassports, 1)
          /\ \A i \in {0, 1} :
                vote_err(VoteOf(h), a, i) = OK <=>
                   /\ isActive(VoteOf(h)) /\ ~VoteOf(h).hasVoted[a]
                   /\ holdsAnyPassportIn(OwnIssuer(h), a, VoteOf(h).requiredPassports, 1)

\* The units whose state a step changes.
Touched == {g \in CloneAddrs : StateOf(g)' # StateOf(g)}

\* An operation on unit h, on its passport contract or on its contest
\* changes nothing of any other unit, and creating a unit changes nothing of
\* the units that exist.
C36_NoCrossEffect ==
    [][\/ UNCHANGED factory
       \/ /\ \A h \in CloneAddrs, u \in Users :
                Unit_createPassportType(h, u, FALSE) => Touched \subseteq {h}
          /\ \A h \in CloneAddrs, u \in Users, a \in Users :
                Unit_mintPassportTo(h, u, a, 1) => Touched \subseteq {h}
          /\ \A h \in CloneAddrs, u \in Users, r \in {<<>>, <<1>>} :
                Unit_createContest(h, u, MaxDuration, r) => Touched \subseteq {h}
          /\ \A h \in CloneAddrs, a \in Users : Unit_vote(h, a, 0) => Touched \subseteq {h}
          /\ \A u \in Users :
                createAssembly(u, "ipfs://a") => Touched \cap UnitsCreated = {}
          /\ UNCHANGED <<assembly, passports, contests>>]_vars

\* C36: credential gating is isolated per unit: eligibility on a gated
\* contest of a unit depends only on balances in that unit's own passport
\* contract, a credential of the same type id in another unit's contract
\* gives no eligibility, and no operation on one unit changes another.
C36_UnitsIsolated ==
    /\ []C36_OwnIssuer
    /\ []C36_EligibilityFromOwnIssuer
    /\ C36_NoCrossEffect

\* Both units have a contest gated on type 1; user 1 holds type 1 only in
\* the second unit's passport contract: it can vote there and not in the
\* first unit's contest.
C36_Witness ==
    /\ UnitsCreated = {CreateAddr(3), CreateAddr(4)}
    /\ VoteOf(CreateAddr(3)).requiredPassports = <<1>>
    /\ VoteOf(CreateAddr(4)).requiredPassports = <<1>>
    /\ balanceIn(OwnIssuer(CreateAddr(3)), 1, 1) = 0
    /\ OwnIssuer(CreateAddr(3)).passportTypes[1].exists
    /\ balanceIn(OwnIssuer(CreateAddr(4)), 1, 1) = 1
    /\ vote_err(VoteOf(CreateAddr(3)), 1, 0) = "MissingRequiredPassport"
    /\ ~canVote(VoteOf(CreateAddr(3)), 1)
    /\ vote_err(VoteOf(CreateAddr(4)), 1, 0) = OK
    /\ canVote(VoteOf(CreateAddr(4)), 1)

\* ---------------------------------------------------------------- C37
\* Every id of the list ids is an existing passport type of the unit's
\* passport contract.
AllTypesExist(ids) == \A j \in 1..Len(ids) : passportTypeOf(ids[j]).exists

\* C37: every contest createContest adds to the unit's list is gated only on
\* ids that are existing passport types of the unit's passport contract at
\* the time of the call.
\* Violated: createContest passes requiredPassports to the clone unchecked.
C37_GateOnExistingTypes ==
    [][Len(assembly'.contests) > Len(assembly.contests) =>
          AllTypesExist(contests'[assembly'.contests[Len(assembly'.contests)]].requiredPassports)
      ]_vars

\* ---------------------------------------------------------------- C38
\* canVote(a) returns true: the call does not revert and its result is true.
CanVoteNow(c, a) == canVote_err(contests[c], a) = OK /\ canVote(contests[c], a)

\* At every instant, for every address and every option of the contest,
\* vote succeeds exactly when canVote returns true.
C38_CanVotePredictsVote ==
    \A c \in ContestIds :
       contests[c].exists =>
          \A a \in Accounts, i \in OptionIdx :
             i < Len(contests[c].options) =>
                (vote_err(contests[c], a, i) = OK <=> CanVoteNow(c, a))

\* An address that has voted never gets canVote true again.
C38_VotedCannotVote ==
    \A c \in ContestIds, a \in Accounts : contests[c].hasVoted[a] => ~CanVoteNow(c, a)

\* A successful vote by a turns canVote(a) from true to false, and the
\* voted mark it rests on is never cleared.
C38_VoteConsumes ==
    [][\/ UNCHANGED contests
       \/ \A c \in ContestIds, a \in Accounts :
             /\ contests[c].hasVoted[a] => contests'[c].hasVoted[a]
             /\ (~contests[c].hasVoted[a] /\ contests'[c].hasVoted[a]) =>
                   (CanVoteNow(c, a) /\ ~CanVoteNow(c, a)')]_vars

\* C38: canVote is an exact predictor of vote: for every address a and
\* every option index below options.length, vote by a succeeds iff
\* canVote(a) is true at that instant, and after a's successful vote
\* canVote(a) is false forever.
C38_CanVoteExact ==
    /\ []C38_CanVotePredictsVote
    /\ []C38_VotedCannotVote
    /\ C38_VoteConsumes

\* On the unit's gated, active contest user 1 has voted and cannot vote
\* again, the other user holds a required passport and can, and both
\* answers match what vote would do.
C38_Witness ==
    /\ isGated(contests[1]) /\ isActive(contests[1])
    /\ contests[1].hasVoted[1] /\ ~CanVoteNow(1, 1)
    /\ vote_err(contests[1], 1, 0) = "AlreadyVoted"
    /\ ~contests[1].hasVoted[NumUsers] /\ CanVoteNow(1, NumUsers)
    /\ vote_err(contests[1], NumUsers, 0) = OK

\* ---------------------------------------------------------------- C39
\* a meets the passport requirement of contest c: the call vote makes to the
\* contest's passport contract returns true.
MeetsRequirement(c, a) ==
    /\ PassportsCallable(contests[c].passports)
    /\ holdsAnyPassportAt(contests[c].passports, a, contests[c].requiredPassports)

\* A balance of 1 stays 1 in every step: nothing burns, transfers or revokes.
C39_BalanceKept ==
    [][\/ UNCHANGED passports
       \/ \A a \in Accounts, t \in TokenIds : balanceOf(a, t) = 1 => balanceOf(a, t)' = 1]_vars

\* holdsPassport and holdsAnyPassport never go from true to false.
C39_HoldingMonotone ==
    [][\/ UNCHANGED passports
       \/ /\ \A a \in Accounts, t \in AnyTokenId : holdsPassport(a, t) => holdsPassport(a, t)'
          /\ \A a \in Accounts, ids \in RequiredLists :
                holdsAnyPassport(a, ids) => holdsAnyPassport(a, ids)']_vars

\* An address that meets the requirement of an initialized contest meets it
\* in every later state.
C39_RequirementKept ==
    [][\A c \in ContestIds, a \in Users :
          (contests[c].initialized /\ MeetsRequirement(c, a)) => MeetsRequirement(c, a)']_vars

\* C39: credentials are never revoked: a balance of 1 stays 1 after every
\* operation, so holdsPassport and holdsAnyPassport are monotone and an
\* address that once met a gated contest's requirement meets it from then on.
C39_NeverRevoked ==
    /\ C39_BalanceKept
    /\ C39_HoldingMonotone
    /\ C39_RequirementKept

\* User 1 holds type 1, meets the requirement of the unit's gated contest,
\* and a transfer of the passport away from it is rejected.
C39_Witness ==
    /\ balanceOf(1, 1) = 1 /\ holdsAnyPassport(1, <<1>>)
    /\ contests[1].initialized /\ contests[1].requiredPassports = <<1>>
    /\ MeetsRequirement(1, 1)
    /\ safeTransferFrom_err(1, 1, NextUser(1), 1, 1) = "TransfersNotAllowed"

\* ---------------------------------------------------------------- C40
\* Votes on the unit's contests next to every other kind of operation: the
\* unit's admin, metadata and passport management, the passport contract,
\* the creation of further contests, and the factory.
NextFrame ==
    \/ Assembly__init(1, "ipfs://a", ContestImplAddr)
    \/ addAdmin(1, NumUsers)
    \/ removeAdmin(1, NumUsers)
    \/ updateMetadata(1, "ipfs://b")
    \/ \E u \in {1, 2} : createPassportType(u, "Member", "ipfs://a", TRUE)
    \/ \E u \in {1, 2} : mint(u, 1)
    \/ \E r \in {<<>>, <<1>>} :
          assembly.contests = <<>>
          /\ createContest(1, "Pick one?", <<"A", "B">>, MaxDuration, r)
    \/ Len(assembly.contests) = 1
       /\ createContest(1, "Pick one?", <<"A", "B">>, MaxDuration, <<>>)
    \/ factory.assemblies = <<>> /\ createAssembly(1, "ipfs://a")
    \/ \E c \in {ImplContest, 1, 2}, u \in {1, 2}, i \in VoteChoices : vote(c, u, i)

SpecFrame == Init /\ [][NextFrame]_vars

\* The ballots and tallies of contest c.
BallotsOf(c) ==
    <<contests[c].hasVoted, contests[c].userVote, contests[c].voteTally, contests[c].totalVotes>>

\* The step is a successful vote(i) by a on contest c and nothing else.
VotedOn(c, a, i) ==
    /\ vote_err(contests[c], a, i) = OK
    /\ contests' = [contests EXCEPT ![c] = vote_state(contests[c], a, i)]
    /\ UNCHANGED <<now, assembly, passports, factory, calls>>

\* The ballots and tallies of a contest change only in a step that is a
\* successful vote on that contest; every other operation leaves them as
\* they were.
C40_OnlyVoteWrites ==
    [][\A c \in ContestIds :
          BallotsOf(c)' # BallotsOf(c) =>
             \E a \in Accounts, i \in OptionIdx : VotedOn(c, a, i)]_vars

\* A successful vote(i) by a on c changes a's ballot, adds 1 to tally[i] and
\* to totalVotes, and leaves every other ballot, every other tally, the
\* contest's terms and every other contest unchanged.
C40_VoteWritesOwnBallot ==
    [][\/ UNCHANGED contests
       \/ \A c \in ContestIds, a \in Accounts, i \in OptionIdx :
             (vote_err(contests[c], a, i) = OK /\ vote(c, a, i)) =>
                /\ \A b \in Accounts \ {a} :
                      /\ contests'[c].hasVoted[b] = contests[c].hasVoted[b]
                      /\ contests'[c].userVote[b] = contests[c].userVote[b]
                /\ \A j \in OptionIdx \ {i} :
                      contests'[c].voteTally[j] = contests[c].voteTally[j]
                /\ contests'[c].voteTally[i] = contests[c].voteTally[i] + 1
                /\ contests'[c].totalVotes = contests[c].totalVotes + 1
                /\ TermsOf(contests[c])' = TermsOf(contests[c])
                /\ \A d \in ContestIds \ {c} : contests'[d] = contests[d]]_vars

\* C40: the ballots, tallies and totalVotes of a contest are changed only
\* by successful vote calls on it; such a call changes only the caller's
\* ballot, the tally of its option and the total; and every operation of
\* the unit's admins, of the passport contract, of other contests and of the
\* factory leaves them unchanged.
C40_BallotFrame == C40_OnlyVoteWrites /\ C40_VoteWritesOwnBallot

\* Two contests of the unit hold ballots: user 1 voted option 1 on the
\* first and the other user option 0 on the second, after which an admin
\* was added and the metadata changed.
C40_Witness ==
    /\ contests[1].hasVoted[1] /\ contests[1].userVote[1] = 1 /\ contests[1].voteTally[1] = 1
    /\ ~contests[1].hasVoted[NumUsers]
    /\ contests[2].hasVoted[NumUsers] /\ contests[2].voteTally[0] = 1 /\ contests[2].totalVotes = 1
    /\ isAdmin(NumUsers) /\ assembly.metadataURI = "ipfs://b"

====
